---- MODULE Spec2Model ----
(***************************************************************************)
(* A model of the inverigator binding discovery and resolution engine:     *)
(* BindingScanner (scan, scanContainerFile, parseBindings, storeBinding,   *)
(* extractBinding, the text and token-table strategies), CacheService,     *)
(* InversifyNavigator.scanAll and the Navigator resolver entry points.     *)
(*                                                                         *)
(* Source text is modelled as sequences of one-character strings, so that  *)
(* quoting, Symbol(...) unwrapping, '.'-splitting and the configuration    *)
(* hash are computed the way the code computes them.                       *)
(***************************************************************************)
EXTENDS Integers, Sequences, FiniteSets, TLC

(***************************************************************************)
(* Text helpers (JavaScript String methods on character sequences)         *)
(***************************************************************************)

\* String.prototype.startsWith
StartsWith(s, p) ==
  Len(p) <= Len(s) /\ SubSeq(s, 1, Len(p)) = p

\* String.prototype.endsWith
EndsWith(s, p) ==
  Len(p) <= Len(s) /\ SubSeq(s, Len(s) - Len(p) + 1, Len(s)) = p

\* does p occur in s at position i (1-based)
OccursAt(s, p, i) ==
  i >= 1 /\ i + Len(p) - 1 <= Len(s) /\ SubSeq(s, i, i + Len(p) - 1) = p

\* String.prototype.includes
Includes(s, p) ==
  \E i \in 1..(Len(s) + 1) : OccursAt(s, p, i)

\* parts[parts.length - 1] of s.split('.'): the text after the last dot
LastDotPart(s) ==
  LET dots == {i \in 1..Len(s) : s[i] = "."}
  IN IF dots = {} THEN s
     ELSE LET d == CHOOSE i \in dots : \A j \in dots : j <= i
          IN SubSeq(s, d + 1, Len(s))

\* the template-quote character (U+0060), which the lexer of TLA+ cannot hold
\* in a string, is written as the atom "bq"
chBackquote == "bq"

QuoteChars == {"'", "\"", chBackquote}

sSymbolOpen == <<"S", "y", "m", "b", "o", "l", "(">>
sSymbolForOpen == <<"S", "y", "m", "b", "o", "l", ".", "f", "o", "r", "(">>
sTYPES == <<"T", "Y", "P", "E", "S">>

\* text.match of the Symbol / Symbol.for pattern with a quoted argument: the set of
\* <<start, first, last>> triples at which the pattern matches with group 1
\* being text[first..last]
SymbolMatches(text) ==
  { m \in (1..Len(text)) \X (1..Len(text)) \X (1..Len(text)) :
      /\ \/ /\ OccursAt(text, sSymbolOpen, m[1])
            /\ m[2] = m[1] + Len(sSymbolOpen) + 1
         \/ /\ OccursAt(text, sSymbolForOpen, m[1])
            /\ m[2] = m[1] + Len(sSymbolForOpen) + 1
      /\ m[2] <= Len(text)
      /\ text[m[2] - 1] \in QuoteChars
      /\ m[3] >= m[2]
      /\ m[3] + 2 <= Len(text)
      /\ text[m[3] + 1] \in QuoteChars
      /\ text[m[3] + 2] = ")" }

\* extractIdentifier(node, sourceFile) applied to the node's text
extractIdentifier(text) ==
  IF Len(text) > 0 /\ text[1] \in QuoteChars
  THEN SubSeq(text, 2, Len(text) - 1)
  ELSE IF StartsWith(text, sSymbolOpen) \/ StartsWith(text, sSymbolForOpen)
  THEN LET ms == SymbolMatches(text)
       IN IF ms = {} THEN text
          ELSE LET m == CHOOSE x \in ms :
                          \A y \in ms : x[1] < y[1] \/ (x[1] = y[1] /\ x[3] <= y[3])
               IN SubSeq(text, m[2], m[3])
  ELSE text

(***************************************************************************)
(* BindingsMap: a JavaScript Map<string, Binding[]>, kept as the sequence  *)
(* of its entries in insertion order                                       *)
(***************************************************************************)

EmptyMap == <<>>

MapKeys(m) == {m[i].key : i \in 1..Len(m)}

MapHas(m, k) == \E i \in 1..Len(m) : m[i].key = k

\* this.bindingsMap.get(k) || []
MapGet(m, k) ==
  IF MapHas(m, k) THEN m[CHOOSE i \in 1..Len(m) : m[i].key = k].val ELSE <<>>

\* this.bindingsMap.set(k, v)
MapSet(m, k, v) ==
  IF MapHas(m, k)
  THEN [i \in 1..Len(m) |-> IF m[i].key = k THEN [key |-> k, val |-> v] ELSE m[i]]
  ELSE Append(m, [key |-> k, val |-> v])

SeqToSet(s) == {s[i] : i \in 1..Len(s)}

Binding(t, impl, f, l) == [token |-> t, implementation |-> impl, file |-> f, line |-> l]

\* a push under the token key that skips the de-duplication test
StoreUnderTokenNoDedup(m, b) ==
  MapSet(m, b.token, Append(MapGet(m, b.token), b))

\* the three de-duplicated pushes of storeBinding, in the order of the code
StoreUnderToken(m, b) ==
  LET existing == MapGet(m, b.token)
  IN IF ~ \E x \in SeqToSet(existing) :
            x.implementation = b.implementation /\ x.file = b.file
     THEN MapSet(m, b.token, Append(existing, b))
     ELSE m

StoreUnderImplementation(m, b) ==
  LET implBindings == MapGet(m, b.implementation)
  IN IF ~ \E x \in SeqToSet(implBindings) : x.token = b.token
     THEN MapSet(m, b.implementation, Append(implBindings, b))
     ELSE m

StoreUnderShortToken(m, b) ==
  IF Includes(b.token, <<".">>)
  THEN LET shortToken == LastDotPart(b.token)
           shortBindings == MapGet(m, shortToken)
       IN IF ~ \E x \in SeqToSet(shortBindings) : x.implementation = b.implementation
          THEN MapSet(m, shortToken, Append(shortBindings, b))
          ELSE m
  ELSE m

storeBinding(m, b) ==
  StoreUnderShortToken(StoreUnderImplementation(StoreUnderToken(m, b), b), b)

(***************************************************************************)
(* Source files. A file is a token table (the entry names of a             *)
(* "const TYPES = {...}" declaration, <<>> when there is none), a sequence *)
(* of import/export declarations and a sequence of call-chain statements   *)
(* recv.name<generic>(args).name(args)...; each on its own line.           *)
(***************************************************************************)

Lower == {"a", "b", "c", "d", "e", "f", "g", "h", "i", "j", "k", "l", "m",
          "n", "o", "p", "q", "r", "s", "t", "u", "v", "w", "x", "y", "z"}
Upper == {"A", "B", "C", "D", "E", "F", "G", "H", "I", "J", "K", "L", "M",
          "N", "O", "P", "Q", "R", "S", "T", "U", "V", "W", "X", "Y", "Z"}
Digits == {"0", "1", "2", "3", "4", "5", "6", "7", "8", "9"}

\* [A-Za-z_]
IdentStart == Lower \cup Upper \cup {"_"}
\* [A-Za-z0-9_]
IdentChar == IdentStart \cup Digits
\* [A-Za-z0-9_\.]
TokenChar == IdentChar \cup {"."}

nBind == <<"b", "i", "n", "d">>
nRebind == <<"r", "e", "b", "i", "n", "d">>
nTo == <<"t", "o">>
nToSelf == <<"t", "o", "S", "e", "l", "f">>
nToService == <<"t", "o", "S", "e", "r", "v", "i", "c", "e">>
nToConstantValue == <<"t", "o", "C", "o", "n", "s", "t", "a", "n", "t", "V", "a", "l", "u", "e">>
nToFactory == <<"t", "o", "F", "a", "c", "t", "o", "r", "y">>
nInSingletonScope == <<"i", "n", "S", "i", "n", "g", "l", "e", "t", "o", "n", "S", "c", "o", "p", "e">>
sContainer == <<"c", "o", "n", "t", "a", "i", "n", "e", "r">>

Call(name, generic, args) == [name |-> name, generic |-> generic, args |-> args]
Stmt(recv, calls) == [recv |-> recv, calls |-> calls]

RECURSIVE JoinArgs(_)
JoinArgs(args) ==
  IF Len(args) = 0 THEN <<>>
  ELSE IF Len(args) = 1 THEN args[1]
  ELSE args[1] \o <<",">> \o JoinArgs(Tail(args))

\* the text of the call expression that ends with the k-th call of the chain
RECURSIVE ChainText(_, _)
ChainText(st, k) ==
  IF k = 0 THEN st.recv
  ELSE LET c == st.calls[k]
       IN ChainText(st, k - 1) \o <<".">> \o c.name \o c.generic
            \o <<"(">> \o JoinArgs(c.args) \o <<")">>

\* node.expression.getText() of the k-th call: the property access recv...name
ExprText(st, k) == ChainText(st, k - 1) \o <<".">> \o st.calls[k].name

StmtText(st) == ChainText(st, Len(st.calls)) \o <<";">>

\* node.parent.getText() of the k-th call: the next property access of the
\* chain, or the expression statement when the call ends the chain
ParentText(st, k) ==
  IF k < Len(st.calls) THEN ExprText(st, k + 1) ELSE StmtText(st)

RECURSIVE TableEntriesText(_)
TableEntriesText(names) ==
  IF Len(names) = 0 THEN <<>>
  ELSE names[1] \o <<":">> \o sSymbolOpen \o <<"'">> \o names[1] \o <<"'", ")", ",">>
         \o TableEntriesText(Tail(names))

\* const TYPES={L:Symbol('L'),...};
TableText(names) ==
  <<"c", "o", "n", "s", "t", " ">> \o sTYPES \o <<"=", "{">>
    \o TableEntriesText(names) \o <<"}", ";">>

RECURSIVE StmtsText(_)
StmtsText(stmts) ==
  IF Len(stmts) = 0 THEN <<>>
  ELSE StmtText(stmts[1]) \o <<"\n">> \o StmtsText(Tail(stmts))

\* an import or export declaration with a module specifier: the names of its
\* named bindings, the specifier text, and the file resolveImportPath finds
\* for it (0: none)
ImportDecl(kind, names, path, target) ==
  [kind |-> kind, names |-> names, path |-> path, target |-> target]

sImport == <<"i", "m", "p", "o", "r", "t">>
sExport == <<"e", "x", "p", "o", "r", "t">>
sFrom == <<" ", "f", "r", "o", "m", " ">>

\* import {a,b} from 'p';   export {a} from 'p';   export * from 'p';
ImportText(d) ==
  (IF d.kind = "import" THEN sImport ELSE sExport) \o <<" ">>
    \o (IF Len(d.names) = 0 THEN <<"*">> ELSE <<"{">> \o JoinArgs(d.names) \o <<"}">>)
    \o sFrom \o <<"'">> \o d.path \o <<"'", ";">>

RECURSIVE ImportsText(_)
ImportsText(ds) ==
  IF Len(ds) = 0 THEN <<>>
  ELSE ImportText(ds[1]) \o <<"\n">> \o ImportsText(Tail(ds))

\* sourceFile.getFullText(): one import/export declaration per line, then the
\* TYPES table (if any) on a line of its own, then one statement per line
FullText(c) ==
  ImportsText(c.imports)
    \o (IF Len(c.types) = 0 THEN <<>> ELSE TableText(c.types) \o <<"\n">>)
    \o StmtsText(c.stmts)

\* getLineAndCharacterOfPosition(pos).line
LineOfPosition(text, pos) ==
  Cardinality({i \in 1..(pos - 1) : i <= Len(text) /\ text[i] = "\n"})

\* line of the statement start (node.getStart() of every call of the chain)
StmtLine(c, i) == Len(c.imports) + (IF Len(c.types) = 0 THEN 0 ELSE 1) + (i - 1)

(***************************************************************************)
(* Structural strategy: extractBinding on the k-th call of a statement     *)
(***************************************************************************)

\* null and '' are both falsy in every use the code makes of them
Null == <<>>

ToCallNames == {nTo, nToService, nToConstantValue, nToFactory}

\* findToCall(startNode, depth) started on the k-th call expression: the walk
\* goes to the property access the call is the object of (depth + 1, where only
\* the depth test applies) and then to the call made on it (depth + 2)
RECURSIVE findToCall(_, _, _)
findToCall(st, k, depth) ==
  IF depth > 5 \/ k >= Len(st.calls) THEN Null
  ELSE IF st.calls[k + 1].name \in ToCallNames /\ Len(st.calls[k + 1].args) > 0
  THEN extractIdentifier(st.calls[k + 1].args[1])
  ELSE IF depth + 1 > 5 THEN Null
  ELSE findToCall(st, k + 1, depth + 2)

sDotBind == <<".">> \o nBind
sDotToSelfCall == <<".">> \o nToSelf \o <<"(", ")">>
sDotToServiceOpen == <<".">> \o nToService \o <<"(">>

\* parentText.match(/\.toService\s*\(\s*([^)]+)\s*\)/): group 1 of the
\* leftmost match, Null when there is none
ToServiceMatch(text) ==
  LET starts == {p \in 1..Len(text) :
                   /\ OccursAt(text, sDotToServiceOpen, p)
                   /\ p + Len(sDotToServiceOpen) <= Len(text)
                   /\ text[p + Len(sDotToServiceOpen)] # ")"
                   /\ \E q \in (p + Len(sDotToServiceOpen))..Len(text) : text[q] = ")"}
  IN IF starts = {} THEN Null
     ELSE LET p == CHOOSE x \in starts : \A y \in starts : x <= y
              a == p + Len(sDotToServiceOpen)
              q == CHOOSE x \in a..Len(text) :
                     text[x] = ")" /\ \A y \in a..(x - 1) : text[y] # ")"
          IN SubSeq(text, a, q - 1)

\* the toSelf and toService fallbacks of extractBinding, given what findToCall
\* returned and the text of the parent node
ImplementationFallback(byChain, parentText, token) ==
  IF byChain # Null THEN byChain
  ELSE IF Includes(parentText, sDotToSelfCall) /\ token # Null THEN token
  ELSE ToServiceMatch(parentText)

\* the implementation extractBinding finds for the k-th call
ImplementationOf(st, k, token) ==
  ImplementationFallback(findToCall(st, k, 0), ParentText(st, k), token)

\* does extractBinding get past its two early returns on the k-th call
IsBindCall(st, k) ==
  /\ Includes(ExprText(st, k), sDotBind) \/ EndsWith(ExprText(st, k), nBind)
  /\ Len(st.calls[k].args) > 0

NoBinding == [token |-> Null, implementation |-> Null, file |-> 0, line |-> 0]

\* the end of extractBinding: the push under the original token text, and the
\* binding returned
StoreUnderOriginalToken(m, originalTokenText, binding) ==
  IF binding.token # Null /\ binding.implementation # Null
  THEN [map |->
          IF originalTokenText # Null /\ originalTokenText # binding.token
             /\ ~ \E b \in SeqToSet(MapGet(m, originalTokenText)) :
                    b.token = binding.token /\ b.implementation = binding.implementation
          THEN MapSet(m, originalTokenText, Append(MapGet(m, originalTokenText), binding))
          ELSE m,
        binding |-> binding]
  ELSE [map |-> m, binding |-> NoBinding]

ExtractWithToken(m, st, k, token, filePath, line) ==
  StoreUnderOriginalToken(m, st.calls[k].args[1],
                          Binding(token, ImplementationOf(st, k, token), filePath, line))

\* extractBinding(node, sourceFile, filePath) with the map it mutates:
\* [map |-> the map after the original-token push, binding |-> Binding or NoBinding]
extractBinding(m, st, k, filePath, line) ==
  IF ~ IsBindCall(st, k) THEN [map |-> m, binding |-> NoBinding]
  ELSE ExtractWithToken(m, st, k, extractIdentifier(st.calls[k].args[1]), filePath, line)

\* if (binding) this.storeBinding(binding)
StoreExtracted(r) ==
  IF r.binding # NoBinding THEN storeBinding(r.map, r.binding) ELSE r.map

\* visit(node) of parseBindings on one statement: the outermost call of a
\* chain is visited first, then the calls it is chained on
RECURSIVE VisitChain(_, _, _, _, _)
VisitChain(m, st, k, filePath, line) ==
  IF k = 0 THEN m
  ELSE VisitChain(StoreExtracted(extractBinding(m, st, k, filePath, line)),
                  st, k - 1, filePath, line)

RECURSIVE VisitStmts(_, _, _, _)
VisitStmts(m, c, i, filePath) ==
  IF i > Len(c.stmts) THEN m
  ELSE VisitStmts(VisitChain(m, c.stmts[i], Len(c.stmts[i].calls), filePath, StmtLine(c, i)),
                  c, i + 1, filePath)

(***************************************************************************)
(* Text-pattern and token-table strategies: the regular expressions of     *)
(* parseBindingsTextBased and findTokenDefinitions, matched on the text.   *)
(* The generated text holds no blanks next to parentheses, so every \s*    *)
(* of the patterns matches the empty string.                               *)
(***************************************************************************)

\* index of the first occurrence of character ch at or after position a, 0 if none
FirstCharFrom(text, ch, a) ==
  LET ps == {i \in a..Len(text) : text[i] = ch}
  IN IF ps = {} THEN 0 ELSE CHOOSE i \in ps : \A j \in ps : i <= j

\* \.verb\s*\( at p, with the generic part <[^>]+> forbidden, required or
\* optional: the position after the opening parenthesis, 0 when no match
VerbOpenAt(text, verb, genericMode, p) ==
  LET base == p + Len(verb) + 1
      g == FirstCharFrom(text, ">", base + 1)
      plain == base <= Len(text) /\ text[base] = "("
      generic == /\ base <= Len(text) /\ text[base] = "<"
                 /\ g >= base + 2 /\ g + 1 <= Len(text) /\ text[g + 1] = "("
  IN IF ~ OccursAt(text, <<".">> \o verb, p) THEN 0
     ELSE IF genericMode # "required" /\ plain THEN base + 1
     ELSE IF genericMode # "forbidden" /\ generic THEN g + 2
     ELSE 0

\* the capture ([A-Za-z_][A-Za-z0-9_\.]*?)\s*\) starting at a (any token), or
\* the literal token tokenSpec followed by ")": the last position of the
\* capture, 0 when no match
TokenEndAt(text, a, tokenSpec, chars) ==
  LET close == FirstCharFrom(text, ")", a)
  IN IF a = 0 \/ a > Len(text) \/ close = 0 THEN 0
     ELSE IF tokenSpec # Null
     THEN IF SubSeq(text, a, close - 1) = tokenSpec THEN close - 1 ELSE 0
     ELSE IF /\ close > a
             /\ text[a] \in IdentStart
             /\ \A i \in (a + 1)..(close - 1) : text[i] \in chars
          THEN close - 1 ELSE 0

ToSuffixes == {<<>>, <<"S", "e", "l", "f">>, <<"S", "e", "r", "v", "i", "c", "e">>,
               <<"C", "o", "n", "s", "t", "a", "n", "t", "V", "a", "l", "u", "e">>,
               <<"F", "a", "c", "t", "o", "r", "y">>}

\* \.to(?:Self|Service|ConstantValue|Factory)?\s*\(\s*([A-Za-z_][A-Za-z0-9_]*?)\s*\)
\* at q: the position after the opening parenthesis, 0 when no match
CompletionOpenAt(text, q) ==
  LET opens == {q + Len(sfx) + 4 : sfx \in
                  {x \in ToSuffixes : OccursAt(text, <<".">> \o nTo \o x \o <<"(">>, q)}}
  IN IF opens = {} THEN 0 ELSE CHOOSE a \in opens : TRUE

CompletionAt(text, q) ==
  TokenEndAt(text, CompletionOpenAt(text, q), Null, IdentChar) # 0

NoMatch == [found |-> FALSE, index |-> 0, token |-> Null, impl |-> Null, last |-> 0]

\* the first position at or after a where a completion call matches, 0 if none
FirstCompletionFrom(text, a) ==
  IF \E q \in a..Len(text) : CompletionAt(text, q)
  THEN CHOOSE q \in a..Len(text) :
         CompletionAt(text, q) /\ \A r \in a..(q - 1) : ~ CompletionAt(text, r)
  ELSE 0

\* the match whose bind call starts at p, whose token is text[a..b] and whose
\* completion call has its argument at text[ia..ib]
MatchRecord(text, p, a, b, ia, ib) ==
  [found |-> TRUE, index |-> p, token |-> SubSeq(text, a, b),
   impl |-> SubSeq(text, ia, ib), last |-> ib + 1]

MatchWithArgument(text, p, a, b, ia) ==
  MatchRecord(text, p, a, b, ia, TokenEndAt(text, ia, Null, IdentChar))

\* the lazy gap [\s\S]*? ends at the nearest completion call q after the token
MatchWithCompletion(text, p, a, b, q) ==
  IF q = 0 THEN NoMatch ELSE MatchWithArgument(text, p, a, b, CompletionOpenAt(text, q))

MatchWithToken(text, p, a, b) ==
  IF b = 0 THEN NoMatch
  ELSE MatchWithCompletion(text, p, a, b, FirstCompletionFrom(text, b + 2))

MatchWithOpen(text, tokenSpec, p, a) ==
  IF a = 0 THEN NoMatch
  ELSE MatchWithToken(text, p, a, TokenEndAt(text, a, tokenSpec, TokenChar))

\* the match of the pattern that starts at position p, NoMatch if there is none
MatchAt(text, verb, genericMode, tokenSpec, p) ==
  MatchWithOpen(text, tokenSpec, p, VerbOpenAt(text, verb, genericMode, p))

LeftmostMatch(ms) ==
  IF ms = {} THEN NoMatch ELSE CHOOSE x \in ms : \A y \in ms : x.index <= y.index

\* pattern.exec(text) with lastIndex = from: the leftmost match
RegexExec(text, verb, genericMode, tokenSpec, from) ==
  LeftmostMatch({MatchAt(text, verb, genericMode, tokenSpec, p) : p \in from..Len(text)}
                  \ {NoMatch})

\* the body of the match loop: storeBinding({token, implementation, file, line})
StoreMatch(m, text, match, filePath) ==
  IF match.token # Null /\ match.impl # Null
  THEN storeBinding(m, Binding(match.token, match.impl, filePath,
                               LineOfPosition(text, match.index)))
  ELSE m

\* a binding pattern: the verb, how its type argument is treated, and the
\* literal token it asks for (Null: any token)
Pattern(verb, genericMode, tokenSpec) ==
  [verb |-> verb, genericMode |-> genericMode, tokenSpec |-> tokenSpec]

\* while ((match = pattern.exec(text)) !== null) { ...store... }, from lastIndex
RECURSIVE StoreRegexMatches(_, _, _, _, _)
RECURSIVE StoreRegexMatch(_, _, _, _, _)
StoreRegexMatches(m, text, pat, from, filePath) ==
  StoreRegexMatch(m, text, pat, filePath,
                  RegexExec(text, pat.verb, pat.genericMode, pat.tokenSpec, from))

StoreRegexMatch(m, text, pat, filePath, match) ==
  IF ~ match.found THEN m
  ELSE StoreRegexMatches(StoreMatch(m, text, match, filePath), text, pat,
                         match.last + 1, filePath)

\* for (const pattern of patterns) { ...match loop... }
RECURSIVE StorePatterns(_, _, _, _, _)
StorePatterns(m, text, pats, i, filePath) ==
  IF i > Len(pats) THEN m
  ELSE StorePatterns(StoreRegexMatches(m, text, pats[i], 1, filePath),
                     text, pats, i + 1, filePath)

\* the three patterns of parseBindingsTextBased, in order
TextPatterns ==
  << Pattern(nBind, "forbidden", Null),
     Pattern(nBind, "required", Null),
     Pattern(nRebind, "optional", Null) >>

\* findTokenDefinitions: one bind pattern per entry of the TYPES table, asking
\* for the token TYPES.<entry>
TokenPatterns(c) ==
  [i \in 1..Len(c.types) |-> Pattern(nBind, "optional", sTYPES \o <<".">> \o c.types[i])]

parseBindingsTextBased(m, c, filePath) ==
  StorePatterns(m, FullText(c), TextPatterns, 1, filePath)

findTokenDefinitions(m, c, filePath) ==
  StorePatterns(m, FullText(c), TokenPatterns(c), 1, filePath)

\* parseBindings(sourceFile, filePath): the structural walk, then the text
\* patterns, then the token table
parseBindings(m, c, filePath) ==
  findTokenDefinitions(
    parseBindingsTextBased(VisitStmts(m, c, 1, filePath), c, filePath), c, filePath)

(***************************************************************************)
(* The source texts the model draws from                                   *)
(***************************************************************************)

tTypesL == sTYPES \o <<".", "L">>
tTypesC == sTYPES \o <<".", "C">>
tOtherL == <<"N", ".", "L">>
tQuotedL == <<"'", "L", "'">>
tSymbolL == sSymbolForOpen \o <<"'", "L", "'", ")">>
iA == <<"A">>
iB == <<"B">>
gI == <<"<", "I", ">">>

\* container.bind(t).to(y);
BindTo(t, y) == Stmt(sContainer, <<Call(nBind, <<>>, <<t>>), Call(nTo, <<>>, <<y>>)>>)
\* container.bind<I>(t).to(y);
BindGenericTo(t, y) == Stmt(sContainer, <<Call(nBind, gI, <<t>>), Call(nTo, <<>>, <<y>>)>>)
\* container.rebind(t).to(y);
RebindTo(t, y) == Stmt(sContainer, <<Call(nRebind, <<>>, <<t>>), Call(nTo, <<>>, <<y>>)>>)
\* container.bind(t).toSelf();
BindToSelf(t) == Stmt(sContainer, <<Call(nBind, <<>>, <<t>>), Call(nToSelf, <<>>, <<>>)>>)
\* container.bind(t).toService(y);
BindToService(t, y) ==
  Stmt(sContainer, <<Call(nBind, <<>>, <<t>>), Call(nToService, <<>>, <<y>>)>>)
\* container.bind(t).to(y).inSingletonScope();
BindToScoped(t, y) ==
  Stmt(sContainer, <<Call(nBind, <<>>, <<t>>), Call(nTo, <<>>, <<y>>),
                     Call(nInSingletonScope, <<>>, <<>>)>>)

Content(types, stmts) == [types |-> types, imports |-> <<>>, stmts |-> stmts]

(***************************************************************************)
(* Following imports: findImportedModules, findConfigurationFunctionCalls  *)
(* and findRegistryFiles                                                   *)
(***************************************************************************)

sConfigure == <<"C", "o", "n", "f", "i", "g", "u", "r", "e">>
sRegistryUpper == <<"R", "e", "g", "i", "s", "t", "r", "y">>
sRegistryLower == <<"r", "e", "g", "i", "s", "t", "r", "y">>
sRegister == <<"r", "e", "g", "i", "s", "t", "e", "r">>
sBindUpper == <<"B", "i", "n", "d">>

\* PATTERNS.configurationFunctions
configurationFunctions == {sConfigure, sRegistryUpper, sRegister, sBindUpper}

\* name.includes('Configure') || name.includes('Registry') || ...
IsConfigurationName(name) ==
  \E p \in configurationFunctions : Includes(name, p)

\* the names one declaration adds to importedFunctions
DeclFunctions(d) ==
  {d.names[i] : i \in {j \in 1..Len(d.names) : IsConfigurationName(d.names[j])}}

\* does findImportedModules push the resolved path of the declaration
DeclFollowed(d) ==
  IF d.kind = "import"
  THEN \/ DeclFunctions(d) # {}
       \/ Includes(d.path, sRegistryLower) \/ Includes(d.path, sRegistryUpper)
  ELSE TRUE

\* if (resolvedPath && !imports.includes(resolvedPath)) imports.push(resolvedPath)
PushImport(imports, d) ==
  IF DeclFollowed(d) /\ d.target # 0 /\ d.target \notin SeqToSet(imports)
  THEN Append(imports, d.target) ELSE imports

\* findImportedModules(sourceFile, currentFilePath): the resolved paths in
\* declaration order, with the names added to this.importedFunctions
RECURSIVE findImportedModules(_, _, _)
findImportedModules(ds, i, acc) ==
  IF i > Len(ds) THEN acc
  ELSE findImportedModules(ds, i + 1,
         [imports |-> PushImport(acc.imports, ds[i]),
          functions |-> acc.functions \cup DeclFunctions(ds[i])])

\* the expression texts of all calls of the file
CallTexts(c) ==
  UNION {{ExprText(c.stmts[i], k) : k \in 1..Len(c.stmts[i].calls)} : i \in 1..Len(c.stmts)}

\* findConfigurationFunctionCalls(sourceFile)
findConfigurationFunctionCalls(c, importedFunctions) ==
  {t \in CallTexts(c) : IsConfigurationName(t) \/ t \in importedFunctions}

sDotTs == <<".", "t", "s">>
sDotTsx == <<".", "t", "s", "x">>

\* FILE_PATTERNS.registry, as the keyword of each **/*keyword*.ts pattern
registryKeywords ==
  << sRegistryLower, sRegistryUpper,
     <<"b", "i", "n", "d", "i", "n", "g", "s">>, <<"B", "i", "n", "d", "i", "n", "g", "s">>,
     sContainer, <<"C", "o", "n", "t", "a", "i", "n", "e", "r">> >>

\* is directory d2 (a sequence of segments) the directory d1 or below it
DirWithin(d1, d2) ==
  Len(d1) <= Len(d2) /\ SubSeq(d2, 1, Len(d1)) = d1

\* does the file match <dir>/**/*keyword*.ts
MatchesRegistryPattern(file, dir, keyword) ==
  /\ DirWithin(dir, file.dir)
  /\ EndsWith(file.base, sDotTs)
  /\ Includes(SubSeq(file.base, 1, Len(file.base) - Len(sDotTs)), keyword)

\* the ids in ascending order of a set of file ids (the order of findFiles)
RECURSIVE SetToSeq(_)
SetToSeq(ids) ==
  IF ids = {} THEN <<>>
  ELSE <<CHOOSE x \in ids : \A y \in ids : x <= y>>
         \o SetToSeq(ids \ {CHOOSE x \in ids : \A y \in ids : x <= y})

\* a sequence without the repetitions of its elements: [...new Set(files)]
RECURSIVE Distinct(_, _)
Distinct(s, acc) ==
  IF Len(s) = 0 THEN acc
  ELSE Distinct(Tail(s), IF s[1] \in SeqToSet(acc) THEN acc ELSE Append(acc, s[1]))

RECURSIVE RegistryMatches(_, _, _)
RegistryMatches(fs, dir, i) ==
  IF i > Len(registryKeywords) THEN <<>>
  ELSE SetToSeq({f \in 1..Len(fs) : MatchesRegistryPattern(fs[f], dir, registryKeywords[i])})
         \o RegistryMatches(fs, dir, i + 1)

\* findRegistryFiles(dir)
findRegistryFiles(fs, dir) == Distinct(RegistryMatches(fs, dir, 1), <<>>)

\* vscode.workspace.findFiles of a configured pattern. The patterns of the
\* model are **/name (a file of that name in any directory) and **/*suffix
GlobMatches(pattern, file) ==
  /\ StartsWith(pattern, <<"*", "*", "/">>)
  /\ IF Len(pattern) > 3 /\ pattern[4] = "*"
     THEN EndsWith(file.base, SubSeq(pattern, 5, Len(pattern)))
     ELSE file.base = SubSeq(pattern, 4, Len(pattern))

\* findFiles('**/*.{ts,tsx}')
IsTypeScriptFile(file) ==
  EndsWith(file.base, sDotTs) \/ EndsWith(file.base, sDotTsx)

(***************************************************************************)
(* CacheService: the configuration hash and the JSON form of the index     *)
(***************************************************************************)

\* the printable ASCII characters in code order, from the space (code 32)
AsciiPrintable ==
  <<
     " ", "!", "\"", "#", "$", "%", "&", "'", "(", ")", "*", "+",
     ",", "-", ".", "/", "0", "1", "2", "3", "4", "5", "6", "7",
     "8", "9", ":", ";", "<", "=", ">", "?", "@", "A", "B", "C",
     "D", "E", "F", "G", "H", "I", "J", "K", "L", "M", "N", "O",
     "P", "Q", "R", "S", "T", "U", "V", "W", "X", "Y", "Z", "[",
     "\\", "]", "^", "_", chBackquote, "a", "b", "c", "d", "e", "f", "g",
     "h", "i", "j", "k", "l", "m", "n", "o", "p", "q", "r", "s",
     "t", "u", "v", "w", "x", "y", "z", "{", "|", "}", "~" >>

\* String.prototype.charCodeAt for a printable ASCII character
charCodeAt(ch) ==
  31 + (CHOOSE i \in 1..Len(AsciiPrintable) : AsciiPrintable[i] = ch)

\* Number.prototype.toString(10) of a natural number
RECURSIVE DecimalText(_)
DecimalText(n) ==
  IF n < 10 THEN <<AsciiPrintable[n + 17]>>
  ELSE DecimalText(n \div 10) \o <<AsciiPrintable[(n % 10) + 17]>>

RECURSIVE JsonStringList(_)
JsonStringList(ss) ==
  IF Len(ss) = 0 THEN <<>>
  ELSE <<"\"">> \o ss[1] \o <<"\"">>
         \o (IF Len(ss) > 1 THEN <<",">> ELSE <<>>) \o JsonStringList(Tail(ss))

\* JSON.stringify({containerPaths, maxScanDepth})
configString(containerPaths, maxScanDepth) ==
  <<"{", "\"", "c", "o", "n", "t", "a", "i", "n", "e", "r", "P", "a", "t", "h", "s", "\"", ":", "[">>
    \o JsonStringList(containerPaths)
    \o <<"]", ",", "\"", "m", "a", "x", "S", "c", "a", "n", "D", "e", "p", "t", "h", "\"", ":">>
    \o DecimalText(maxScanDepth) \o <<"}">>

\* a 32-bit integer as its two 16-bit halves <<high, low>> (two's complement)
Half == 65536

\* hash = ((hash << 5) - hash) + char; hash = hash & hash
\* that is 31 * hash + char, truncated to 32 bits
HashStep(h, code) ==
  << (h[1] * 31 + ((h[2] * 31 + code) \div Half)) % Half, (h[2] * 31 + code) % Half >>

\* for (let i = 0; i < configString.length; i++) { ... }
\* (the test on h makes the evaluator compute each intermediate hash in turn)
RECURSIVE HashFrom(_, _, _)
HashFrom(text, i, h) ==
  IF i > Len(text) \/ h[1] < 0 THEN h
  ELSE HashFrom(text, i + 1, HashStep(h, charCodeAt(text[i])))

IsNegative32(h) == h[1] >= Half \div 2

\* the absolute value of a 32-bit two's complement integer, as halves
Magnitude32(h) ==
  IF ~ IsNegative32(h) THEN h
  ELSE IF h[2] = 0 THEN << (Half - h[1]) % Half, 0 >>
  ELSE << Half - 1 - h[1], Half - h[2] >>

\* the digits 0-9a-z of toString(36)
Base36Digit(d) ==
  IF d < 10 THEN AsciiPrintable[d + 17] ELSE AsciiPrintable[d - 10 + 66]

\* quotient and remainder of the division of <<high, low>> by 36
DivMod36(h) ==
  [quot |-> << h[1] \div 36, ((h[1] % 36) * Half + h[2]) \div 36 >>,
   rem |-> ((h[1] % 36) * Half + h[2]) % 36]

RECURSIVE Base36Text(_)
Base36Text(h) ==
  IF h[1] = 0 /\ h[2] < 36 THEN <<Base36Digit(h[2])>>
  ELSE Base36Text(DivMod36(h).quot) \o <<Base36Digit(DivMod36(h).rem)>>

\* hash.toString(36)
toString36(h) ==
  (IF IsNegative32(h) THEN <<"-">> ELSE <<>>) \o Base36Text(Magnitude32(h))

\* CacheService.getConfigHash() under the given configuration
getConfigHash(config) ==
  toString36(HashFrom(configString(config.containerPaths, config.maxScanDepth), 1, <<0, 0>>))

\* is the key an array index ("0", "7", "12": no sign, no leading zero)
IsArrayIndexKey(k) ==
  /\ Len(k) > 0
  /\ \A i \in 1..Len(k) : k[i] \in Digits
  /\ Len(k) = 1 \/ k[1] # "0"

\* numeric order of two array-index keys
IndexKeyLess(a, b) ==
  \/ Len(a) < Len(b)
  \/ /\ Len(a) = Len(b)
     /\ \E i \in 1..Len(a) :
          /\ SubSeq(a, 1, i - 1) = SubSeq(b, 1, i - 1)
          /\ charCodeAt(a[i]) < charCodeAt(b[i])

\* the entries whose key is an array index, in ascending numeric order
RECURSIVE SortedIndexEntries(_, _)
SortedIndexEntries(m, todo) ==
  IF todo = {} THEN <<>>
  ELSE <<m[CHOOSE i \in todo : \A j \in todo : j = i \/ IndexKeyLess(m[i].key, m[j].key)]>>
         \o SortedIndexEntries(m, todo \
              {CHOOSE i \in todo : \A j \in todo : j = i \/ IndexKeyLess(m[i].key, m[j].key)})

RECURSIVE SelectEntries(_, _, _)
SelectEntries(m, i, keep) ==
  IF i > Len(m) THEN <<>>
  ELSE (IF i \in keep THEN <<m[i]>> ELSE <<>>) \o SelectEntries(m, i + 1, keep)

\* new Map(Object.entries(JSON.parse(JSON.stringify(bindingsObj)))): an object
\* lists its array-index keys first, in numeric order, then its other keys in
\* insertion order
JsonRoundTrip(m) ==
  SortedIndexEntries(m, {i \in 1..Len(m) : IsArrayIndexKey(m[i].key)})
    \o SelectEntries(m, 1, {i \in 1..Len(m) : ~ IsArrayIndexKey(m[i].key)})

CACHE_VERSION == "1.0.0"

\* the cache directory: absent, or the bindings file and the metadata file
NoCache ==
  [exists |-> FALSE, version |-> "", timestamp |-> 0, configHash |-> <<>>,
   bindings |-> EmptyMap, scannedFiles |-> {}]

\* saveCache(bindings, injections, scannedFiles): the bindings as the JSON text
\* of an object, the metadata with the time and the configuration hash
saveCache(bindings, scannedFiles, time, config) ==
  [exists |-> TRUE, version |-> CACHE_VERSION, timestamp |-> time,
   configHash |-> getConfigHash(config),
   bindings |-> JsonRoundTrip(bindings), scannedFiles |-> scannedFiles]

\* a comparison of hashes that always succeeds
ConfigHashIgnored(disk, config) == TRUE

\* metadata.configHash !== currentConfigHash, negated
ConfigHashMatches(disk, config) == disk.configHash = getConfigHash(config)

\* does loadCache() return data (not null)
loadCache(disk, config) ==
  /\ disk.exists
  /\ disk.version = CACHE_VERSION
  /\ ConfigHashMatches(disk, config)

\* isCacheValid(maxAge); a maxAge of 0 is falsy, so the age is not looked at
isCacheValid(disk, config, time, maxAge) ==
  /\ disk.exists
  /\ maxAge # 0 => ~ (time - disk.timestamp > maxAge)
  /\ ConfigHashMatches(disk, config)

(***************************************************************************)
(* BindingScanner: classification and the visit of one file, as functions  *)
(* of the scanner's fields                                                 *)
(***************************************************************************)

\* a file of the workspace: its directory (a sequence of segments), its base
\* name, its text (declarations, token table, statements), the classes it
\* declares (no binding strategy matches in a class declaration, so they are
\* kept apart from the text the strategies read), whether it can be read, and
\* whether something throws in the try block of scanContainerFile on it
File(dir, base, imports, types, stmts) ==
  [dir |-> dir, base |-> base, imports |-> imports, types |-> types, stmts |-> stmts,
   classes |-> <<>>, readable |-> TRUE, throws |-> FALSE]

\* a constructor parameter "@inject(token) private property: type"
Inject(property, type, token) == [property |-> property, type |-> type, token |-> token]

\* class name { constructor(<injects>) {} <methods> }
Class(name, hasMethods, injects) ==
  [name |-> name, hasMethods |-> hasMethods, injects |-> injects]

\* IgnorePatternMatcher.DEFAULT_PATTERNS: the **/name/** patterns ...
ignoredDirectories ==
  { <<"n", "o", "d", "e", "_", "m", "o", "d", "u", "l", "e", "s">>,
    <<"d", "i", "s", "t">>, <<"b", "u", "i", "l", "d">>, <<"o", "u", "t">>,
    <<".", "g", "i", "t">>, <<"c", "o", "v", "e", "r", "a", "g", "e">>,
    <<"_", "_", "t", "e", "s", "t", "s", "_", "_">>,
    <<"_", "_", "m", "o", "c", "k", "s", "_", "_">>,
    <<"t", "e", "s", "t">>, <<"t", "e", "s", "t", "s">>,
    <<"v", "e", "n", "d", "o", "r">>,
    <<"t", "h", "i", "r", "d", "_", "p", "a", "r", "t", "y">>,
    <<".", "n", "e", "x", "t">>, <<".", "n", "u", "x", "t">>,
    <<"t", "m", "p">>, <<"t", "e", "m", "p">> }

\* ... and the **/*suffix patterns
ignoredSuffixes ==
  { <<".", "t", "e", "s", "t", ".", "t", "s">>, <<".", "t", "e", "s", "t", ".", "t", "s", "x">>,
    <<".", "s", "p", "e", "c", ".", "t", "s">>, <<".", "s", "p", "e", "c", ".", "t", "s", "x">>,
    <<".", "d", ".", "t", "s">> }

\* IgnorePatternMatcher.shouldIgnore(filePath) with the default patterns: a
\* directory pattern needs a directory of that name above the file, and the
\* star of a suffix pattern does not match the empty name of a dot file
shouldIgnore(file) ==
  \/ \E i \in 1..Len(file.dir) : file.dir[i] \in ignoredDirectories
  \/ \E x \in ignoredSuffixes : EndsWith(file.base, x) /\ Len(file.base) > Len(x)

\* Number.MAX_SAFE_INTEGER, beyond every count and clock value
MAX_SAFE_INTEGER == 2147483647

\* if (value === -1) value = Number.MAX_SAFE_INTEGER
Unlimited(value) == IF value = -1 THEN MAX_SAFE_INTEGER ELSE value

\* text.includes('.bind(') || text.includes('.rebind(') || ...
hasBindings(text) ==
  \/ Includes(text, <<".">> \o nBind \o <<"(">>)
  \/ Includes(text, <<".">> \o nRebind \o <<"(">>)
  \/ Includes(text, <<".">> \o nToSelf \o <<"(">>)
  \/ Includes(text, <<".">> \o nToService \o <<"(">>)

\* text.includes('new Container(') || text.includes('container.') || ...
hasContainer(text) ==
  \/ Includes(text, <<"n", "e", "w", " ", "C", "o", "n", "t", "a", "i", "n", "e", "r", "(">>)
  \/ Includes(text, sContainer \o <<".">>)
  \/ Includes(text, <<"C", "o", "n", "t", "a", "i", "n", "e", "r", ".">>)

\* the class the first pass puts a readable file in
FileClass(file) ==
  IF ~ file.readable THEN "none"
  ELSE IF hasBindings(FullText(file)) THEN "bindings"
  ELSE IF hasContainer(FullText(file)) THEN "container"
  ELSE "none"

\* ignoreMatcher.filterFiles(await findFiles('**/*.{ts,tsx}', ...))
candidateFiles(fs) ==
  SetToSeq({f \in 1..Len(fs) : IsTypeScriptFile(fs[f]) /\ ~ shouldIgnore(fs[f])})

\* a pending call scanContainerFile(filePath, depth, maxDepth)
Frame(file, depth, maxDepth) == [file |-> file, depth |-> depth, maxDepth |-> maxDepth]

Frames(fileSeq, depth, maxDepth) ==
  [i \in 1..Len(fileSeq) |-> Frame(fileSeq[i], depth, maxDepth)]

Min(a, b) == IF a <= b THEN a ELSE b

\* the container files without the cap
SliceContainerFilesNoCap(containerFiles, maxContainerFiles) == containerFiles

\* maxContainerFiles === -1 ? containerFiles : containerFiles.slice(0, maxContainerFiles)
SliceContainerFiles(containerFiles, maxContainerFiles) ==
  IF maxContainerFiles = -1 THEN containerFiles
  ELSE SubSeq(containerFiles, 1, Min(Len(containerFiles), maxContainerFiles))

\* the root calls of contentBasedScan: the files with bindings, then the
\* (capped) files with container references
ContentRoots(bindingFiles, containerFiles, maxDepth, maxContainerFiles) ==
  Frames(bindingFiles, 0, Min(maxDepth, 3))
    \o Frames(SliceContainerFiles(containerFiles, maxContainerFiles), 0, Min(maxDepth, 2))

\* the files of the configured patterns that are not ignored, pattern by pattern
RECURSIVE PatternFiles(_, _, _)
PatternFiles(fs, patterns, i) ==
  IF i > Len(patterns) THEN <<>>
  ELSE SetToSeq({f \in 1..Len(fs) : GlobMatches(patterns[i], fs[f]) /\ ~ shouldIgnore(fs[f])})
         \o PatternFiles(fs, patterns, i + 1)

PatternRoots(fs, patterns, maxDepth) ==
  Frames(PatternFiles(fs, patterns, 1), 0, maxDepth)

\* the early returns without the test of the file limit
SkipsFileNoLimit(k, fs, frame, elapsed) ==
  \/ elapsed > k.scanTimeout
  \/ shouldIgnore(fs[frame.file])
  \/ frame.file \in k.processedFiles
  \/ frame.depth > frame.maxDepth

\* the early returns without the test of processedFiles
SkipsFileNoVisitedCheck(k, fs, frame, elapsed) ==
  \/ Cardinality(k.processedFiles) >= k.maxFilesToScan
  \/ elapsed > k.scanTimeout
  \/ shouldIgnore(fs[frame.file])
  \/ frame.depth > frame.maxDepth

\* the early returns without the test of the ignore patterns
SkipsFileNoIgnoreCheck(k, fs, frame, elapsed) ==
  \/ Cardinality(k.processedFiles) >= k.maxFilesToScan
  \/ elapsed > k.scanTimeout
  \/ frame.file \in k.processedFiles
  \/ frame.depth > frame.maxDepth

\* the early returns of scanContainerFile, in the order of the code
SkipsFile(k, fs, frame, elapsed) ==
  \/ Cardinality(k.processedFiles) >= k.maxFilesToScan
  \/ elapsed > k.scanTimeout
  \/ shouldIgnore(fs[frame.file])
  \/ frame.file \in k.processedFiles
  \/ frame.depth > frame.maxDepth

\* the calls scanContainerFile makes after parsing: the imported modules, the
\* registry files when the file calls configuration functions and imports
\* nothing, and the registry files of its directory
ChildFiles(imports, functionCalls, registryFiles) ==
  imports
    \o (IF functionCalls # {} /\ Len(imports) = 0 THEN registryFiles ELSE <<>>)
    \o registryFiles

\* the rest of scanContainerFile once the imports are known
ParseWithImports(k, fs, frame, im) ==
  [k EXCEPT
     !.map = parseBindings(k.map, fs[frame.file], frame.file),
     !.processedFiles = k.processedFiles \cup {frame.file},
     !.importedFunctions = im.functions,
     !.stack = Frames(ChildFiles(im.imports,
                                 findConfigurationFunctionCalls(fs[frame.file], im.functions),
                                 findRegistryFiles(fs, fs[frame.file].dir)),
                      frame.depth + 1, frame.maxDepth) \o Tail(k.stack),
     !.parsedFile = frame.file]

\* scanContainerFile(filePath, depth, maxDepth) for the call on top of the
\* stack; k holds the scanner's fields, the map and the pending calls
scanContainerFile(k, fs, elapsed) ==
  IF SkipsFile(k, fs, Head(k.stack), elapsed)
  THEN [k EXCEPT !.stack = Tail(k.stack), !.parsedFile = 0]
  ELSE IF ~ fs[Head(k.stack).file].readable
  THEN [k EXCEPT !.processedFiles = k.processedFiles \cup {Head(k.stack).file},
                 !.stack = Tail(k.stack), !.parsedFile = 0]
  ELSE IF fs[Head(k.stack).file].throws
  THEN [k EXCEPT !.processedFiles = k.processedFiles \cup {Head(k.stack).file},
                 !.diagnostics = k.diagnostics \cup {Head(k.stack).file},
                 !.stack = Tail(k.stack), !.parsedFile = 0]
  ELSE ParseWithImports(k, fs, Head(k.stack),
         findImportedModules(fs[Head(k.stack).file].imports, 1,
                             [imports |-> <<>>, functions |-> k.importedFunctions]))

\* the calls of scanContainerFile run to the end, no time passing
RECURSIVE RunVisits(_, _)
RunVisits(k, fs) ==
  IF k.stack = <<>> THEN k ELSE RunVisits(scanContainerFile(k, fs, 0), fs)

\* the files of a class in the order findFiles lists them
FilesOfClass(fs, class) ==
  SetToSeq({f \in SeqToSet(candidateFiles(fs)) : FileClass(fs[f]) = class})

\* the second pass of contentBasedScan when the first pass completes in the
\* order of the file list
contentBasedScan(k, fs, maxDepth, maxContainerFiles) ==
  RunVisits([k EXCEPT !.stack = ContentRoots(FilesOfClass(fs, "bindings"),
                                             FilesOfClass(fs, "container"),
                                             maxDepth, maxContainerFiles)], fs)

PatternScan(k, fs, patterns, maxDepth) ==
  RunVisits([k EXCEPT !.stack = PatternRoots(fs, patterns, maxDepth)], fs)

\* the index of a full scan without limits whose first pass completes in the
\* order of the file list
fullScan(fs, patterns, maxDepth, maxContainerFiles) ==
  PatternScan(
    contentBasedScan([map |-> EmptyMap, processedFiles |-> {}, importedFunctions |-> {},
                      diagnostics |-> {},
                      maxFilesToScan |-> MAX_SAFE_INTEGER, scanTimeout |-> MAX_SAFE_INTEGER,
                      stack |-> <<>>, parsedFile |-> 0],
                     fs, maxDepth, maxContainerFiles),
    fs, patterns, maxDepth).map

(***************************************************************************)
(* ServiceIndexer and InjectionMapper                                      *)
(***************************************************************************)

\* PATTERNS.serviceClassSuffixes
serviceClassSuffixes ==
  { <<"S", "e", "r", "v", "i", "c", "e">>,
    <<"R", "e", "p", "o", "s", "i", "t", "o", "r", "y">>,
    <<"C", "o", "n", "t", "r", "o", "l", "l", "e", "r">>,
    <<"P", "r", "o", "v", "i", "d", "e", "r">> }

\* hasInjectableDecorator || isServiceClass || methods.length > 0; the text of
\* a class with an @inject parameter includes the decorator name '@inject'
IsServiceClass(c) ==
  \/ Len(c.injects) > 0
  \/ \E x \in serviceClassSuffixes : EndsWith(c.name, x)
  \/ c.hasMethods

\* extractServiceInfo(sourceFile, filePath): serviceMap.set(className, {...})
RECURSIVE extractServiceInfo(_, _, _, _)
extractServiceInfo(m, classes, i, filePath) ==
  IF i > Len(classes) THEN m
  ELSE extractServiceInfo(
         IF IsServiceClass(classes[i])
         THEN MapSet(m, classes[i].name, [className |-> classes[i].name, file |-> filePath])
         ELSE m,
         classes, i + 1, filePath)

\* the loop of indexServices over the TypeScript files that can be read
RECURSIVE indexServices(_, _, _)
indexServices(m, fs, f) ==
  IF f > Len(fs) THEN m
  ELSE indexServices(
         IF IsTypeScriptFile(fs[f]) /\ fs[f].readable
         THEN extractServiceInfo(m, fs[f].classes, 1, f) ELSE m,
         fs, f + 1)

\* the maps of a cleared InjectionMapper
NoInjections == [interfaceToToken |-> EmptyMap, propertyToInterface |-> EmptyMap]

\* one @inject parameter: the type is mapped to the token, and the injection
\* is stored under "<file name>:<parameter>" and under the parameter name
StoreInjection(maps, base, filePath, inj) ==
  [interfaceToToken |-> MapSet(maps.interfaceToToken, inj.type, inj.token),
   propertyToInterface |->
     MapSet(MapSet(maps.propertyToInterface, base \o <<":">> \o inj.property,
                   [propertyName |-> inj.property, interfaceType |-> inj.type,
                    token |-> inj.token, file |-> filePath]),
            inj.property,
            [propertyName |-> inj.property, interfaceType |-> inj.type,
             token |-> inj.token, file |-> filePath])]

\* extractConstructorInjections for the parameters from the i-th on
RECURSIVE extractConstructorInjections(_, _, _, _, _)
extractConstructorInjections(maps, injects, i, base, filePath) ==
  IF i > Len(injects) THEN maps
  ELSE extractConstructorInjections(StoreInjection(maps, base, filePath, injects[i]),
                                    injects, i + 1, base, filePath)

\* extractInjectionInfo(sourceFile, filePath) for the classes from the i-th on
RECURSIVE extractInjectionInfo(_, _, _, _)
extractInjectionInfo(maps, file, i, filePath) ==
  IF i > Len(file.classes) THEN maps
  ELSE extractInjectionInfo(
         extractConstructorInjections(maps, file.classes[i].injects, 1, file.base, filePath),
         file, i + 1, filePath)

\* the loop of mapInjections over the TypeScript files that can be read
RECURSIVE mapInjections(_, _, _)
mapInjections(maps, fs, f) ==
  IF f > Len(fs) THEN maps
  ELSE mapInjections(
         IF IsTypeScriptFile(fs[f]) /\ fs[f].readable
         THEN extractInjectionInfo(maps, fs[f], 1, f) ELSE maps,
         fs, f + 1)

(***************************************************************************)
(* State                                                                   *)
(***************************************************************************)

VARIABLES
  index,    \* SpecStore: the scanner's bindingsMap while files are parsed into it
  parsed,   \* SpecStore: processedFiles, the files parsed since the last clear
  files,    \* the workspace: a sequence of files, a file's path is its position
  config,   \* the inverigator.* settings
  now,      \* Date.now()
  cache,    \* the cache directory on disk
  heap,     \* the Map objects holding binding indexes, by reference
  scanner,  \* the fields of the BindingScanner
  scan,     \* the activation of BindingScanner.scan: where it is and its locals
  parses,   \* how often the current scan has parsed each file
  app,      \* the fields of the InversifyNavigator and where its scanAll is
  services, \* the ServiceIndexer's serviceMap
  injections, \* the maps of the InjectionMapper
  completed,  \* what the last completed scanAll left in the three indexes
  request,  \* the resolver request in progress or last made
  node,     \* SpecNormalize: the node given to extractIdentifier and what it returned
  watcher,  \* the file watcher: its change events, the cache removal in flight
  other     \* a scanAll activation suspended at an await while another one runs

storeVars == <<index, parsed>>

\* no node has been given to extractIdentifier
NoNode ==
  [kind |-> "none", interior |-> <<>>, text |-> <<>>, identifier |-> <<>>, applied |-> FALSE]

scanVars == <<files, config, now, cache, heap, scanner, scan, parses>>

appVars == <<app, services, injections, completed>>

navVars == <<services, injections, completed, request>>

vars == <<index, parsed, files, config, now, cache, heap, scanner, scan, parses, app,
          services, injections, completed, request, node, watcher, other>>

hostVars == <<watcher, other>>

(***************************************************************************)
(* The workspaces and settings the model draws from                        *)
(***************************************************************************)

dSrc == << <<"s", "r", "c">> >>

sContainerTs == <<"c", "o", "n", "t", "a", "i", "n", "e", "r", ".", "t", "s">>

\* src/a.ts binds TYPES.L to A and declares the class A, whose constructor
\* takes "@inject(TYPES.L) dep: I"; src/registry.ts only mentions the
\* container and binds TYPES.L to B; src/bindings.ts cannot be read
FlatWorkspace ==
  << [File(dSrc, <<"a", ".", "t", "s">>, <<>>, <<>>, <<BindTo(tTypesL, iA)>>)
        EXCEPT !.classes = <<Class(iA, TRUE, <<Inject(<<"d", "e", "p">>, <<"I">>, tTypesL)>>)>>],
     File(dSrc, sRegistryLower \o sDotTs, <<>>, <<>>, <<BindGenericTo(tTypesL, iB)>>),
     [File(dSrc, <<"b", "i", "n", "d", "i", "n", "g", "s", ".", "t", "s">>, <<>>, <<>>,
           <<BindTo(tTypesC, iB)>>) EXCEPT !.readable = FALSE] >>

\* src/container.ts re-exports src/m.ts, which re-exports it back, imports
\* registerAll from src/z.ts and re-exports the test file src/t.test.ts;
\* nothing in the text of src/z.ts makes the first pass pick it; src/m.ts
\* declares the interface B and src/z.ts the class B, neither with methods
GraphWorkspace ==
  << File(dSrc, sContainerTs,
          <<ImportDecl("export", <<>>, <<".", "/", "m">>, 2)>>,
          <<>>, <<BindTo(tTypesL, iA)>>),
     [File(dSrc, <<"m", ".", "t", "s">>,
          <<ImportDecl("export", <<>>, <<".", "/">> \o sContainer, 1),
            ImportDecl("import", <<sRegister \o <<"A", "l", "l">>>>, <<".", "/", "z">>, 3),
            ImportDecl("export", <<>>, <<".", "/", "t", ".", "t", "e", "s", "t">>, 4),
            ImportDecl("import", <<<<"x">>>>, <<"l", "i", "b">>, 0)>>,
          <<>>, <<BindTo(tTypesC, iB)>>)
        EXCEPT !.classes = <<Class(iB, FALSE, <<>>)>>],
     [File(dSrc, <<"z", ".", "t", "s">>, <<>>, <<>>,
           <<Stmt(<<"k">>, <<Call(nBind, gI, <<tTypesL>>), Call(nTo, <<>>, <<iB>>)>>)>>)
        EXCEPT !.classes = <<Class(iB, FALSE, <<>>)>>],
     File(dSrc, <<"t", ".", "t", "e", "s", "t", ".", "t", "s">>, <<>>, <<>>,
          <<BindTo(tTypesC, iA)>>) >>

Workspaces == {FlatWorkspace, GraphWorkspace}

\* src/container.ts binds TYPES.L to A and re-exports src/u.ts, which cannot
\* be read, src/x.ts, on which the extraction throws, and src/ok.ts, which
\* binds TYPES.C to B
FaultWorkspace ==
  << File(dSrc, sContainerTs,
          <<ImportDecl("export", <<>>, <<".", "/", "u">>, 2),
            ImportDecl("export", <<>>, <<".", "/", "x">>, 3),
            ImportDecl("export", <<>>, <<".", "/", "o", "k">>, 4)>>,
          <<>>, <<BindTo(tTypesL, iA)>>),
     [File(dSrc, <<"u", ".", "t", "s">>, <<>>, <<>>, <<BindTo(tTypesC, iA)>>)
        EXCEPT !.readable = FALSE],
     [File(dSrc, <<"x", ".", "t", "s">>, <<>>, <<>>, <<BindTo(tOtherL, iA)>>)
        EXCEPT !.throws = TRUE],
     File(dSrc, <<"o", "k", ".", "t", "s">>, <<>>, <<>>, <<BindTo(tTypesC, iB)>>) >>

iIm == <<"I", "m">>
sDep == <<"d", "e", "p">>
sSvc == <<"s", "v", "c">>

\* src/container.ts binds TYPES.C to Im and N.L to B; src/a.ts declares the
\* class A, whose constructor takes "@inject(TYPES.L) private dep: I" (nothing
\* binds TYPES.L) and "@inject(TYPES.C) private svc: Im"; src/im.ts declares
\* the class Im with the method run
ServiceWorkspace ==
  << File(dSrc, sContainerTs, <<>>, <<>>, <<BindTo(tTypesC, iIm), BindTo(tOtherL, iB)>>),
     [File(dSrc, <<"a", ".", "t", "s">>, <<>>, <<>>, <<>>)
        EXCEPT !.classes = <<Class(iA, TRUE, <<Inject(sDep, <<"I">>, tTypesL),
                                                Inject(sSvc, iIm, tTypesC)>>)>>],
     [File(dSrc, <<"i", "m", ".", "t", "s">>, <<>>, <<>>, <<>>)
        EXCEPT !.classes = <<Class(iIm, TRUE, <<>>)>>] >>

\* the workspaces of the resolver requests
sTest == <<"t", "e", "s", "t">>

\* src/container.ts binds TYPES.L to A and re-exports src/registry.test.ts,
\* which binds TYPES.C to B; src/test/container.ts binds N.L to B. The default
\* ignore patterns match the two last files: one is a test file that is also
\* a registry sibling of src/container.ts, the other lies in a test directory
\* and matches the configured pattern **/container.ts
IgnoreWorkspace ==
  << File(dSrc, sContainerTs,
          <<ImportDecl("export", <<>>, <<".", "/">> \o sRegistryLower \o <<".">> \o sTest, 2)>>,
          <<>>, <<BindTo(tTypesL, iA)>>),
     File(dSrc, sRegistryLower \o <<".">> \o sTest \o sDotTs, <<>>, <<>>,
          <<BindTo(tTypesC, iB)>>),
     File(dSrc \o <<sTest>>, sContainerTs, <<>>, <<>>, <<BindTo(tOtherL, iB)>>) >>

NavWorkspaces == Workspaces \cup {ServiceWorkspace}

\* src/container.ts binds N.L to B and N.dep to A (so "L" and "dep" are keys
\* of the index as well); src/a.ts declares the class A, whose constructor
\* takes "@inject(TYPES.L) private dep: I"; nothing binds TYPES.L
OrderWorkspace ==
  << File(dSrc, sContainerTs, <<>>, <<>>,
          <<BindTo(tOtherL, iB), BindTo(<<"N", ".">> \o sDep, iA)>>),
     [File(dSrc, <<"a", ".", "t", "s">>, <<>>, <<>>, <<>>)
        EXCEPT !.classes = <<Class(iA, TRUE, <<Inject(sDep, <<"I">>, tTypesL)>>)>>] >>

\* settings: patterns and depth as scanAll reads them, the limits as scan
\* reads them (-1: unlimited), the cache switches
BaseConfig ==
  [containerPaths |-> << <<"*", "*", "/">> \o sContainerTs >>,
   maxScanDepth |-> 1,
   maxFilesToScan |-> -1,
   scanTimeout |-> -1,
   useCache |-> TRUE,
   cacheMaxAge |-> 1,
   maxContainerFilesToScan |-> 100,
   autoScanOnSave |-> TRUE]

\* the settings the user can arrive at
Configs ==
  { BaseConfig,
    [BaseConfig EXCEPT !.containerPaths = <<>>, !.cacheMaxAge = 0],
    [BaseConfig EXCEPT !.maxScanDepth = 2, !.useCache = FALSE],
    [BaseConfig EXCEPT !.maxFilesToScan = 2],
    [BaseConfig EXCEPT !.scanTimeout = 1] }

\* the clock values of the model
MaxNow == 2

\* the number of scanAll runs the model follows
MaxScans == 2

\* a cache directory an earlier release of the extension left behind
OlderCache ==
  [exists |-> TRUE, version |-> "0.9.0", timestamp |-> 0,
   configHash |-> getConfigHash(BaseConfig),
   bindings |-> storeBinding(EmptyMap, Binding(tTypesL, iB, 1, 0)), scannedFiles |-> {1}]

(***************************************************************************)
(* BindingScanner.scan and InversifyNavigator.scanAll, one action per      *)
(* stretch of code between two awaits                                      *)
(***************************************************************************)

MapIds == {1, 2, 3}

\* no resolver request has been made
NoRequest ==
  [entry |-> "none", symbol |-> <<>>, phase |-> "idle", found |-> <<>>, offered |-> <<>>,
   chosen |-> NoBinding, binding |-> NoBinding, fileItems |-> <<>>, file |-> 0,
   message |-> FALSE, named |-> <<>>, step |-> "none", doc |-> 0, cls |-> 0,
   opened |-> 0, propertyAccess |-> FALSE, pattern |-> "none", lookup |-> <<>>,
   services |-> "own"]

\* a reference no field holds: the Map a "new Map(...)" creates
NewMapRef(held) ==
  CHOOSE r \in MapIds \ held : \A q \in MapIds \ held : r <= q

\* the heap without the Maps no field refers to
Collect(h, held) == [r \in MapIds |-> IF r \in held THEN h[r] ELSE EmptyMap]

IdleScan ==
  [pc |-> "idle", forceFullScan |-> FALSE, patterns |-> <<>>, maxDepth |-> 0,
   cacheData |-> NoCache, candidates |-> <<>>, batchStart |-> 0, pending |-> {},
   bindingFiles |-> <<>>, containerFiles |-> <<>>, stack |-> <<>>, result |-> "none"]

\* setupFileWatchers has not run: no watcher, no change event, no removal of
\* the cache directory in flight
NoWatcher ==
  [setup |-> FALSE, installed |-> FALSE, events |-> {}, raisedOff |-> {},
   clearing |-> FALSE, rescan |-> 0]

\* no scanAll activation is suspended
NoOther == [scan |-> IdleScan, pc |-> "idle"]

\* the state after the constructors of InversifyNavigator, BindingScanner and
\* Navigator have run: the Navigator holds the InversifyNavigator's empty Map,
\* the scanner its own
InitApp(ws, disk) ==
  /\ files = ws
  /\ config = BaseConfig
  /\ now = 0
  /\ cache = disk
  /\ heap = [r \in MapIds |-> EmptyMap]
  /\ scanner = [bindingsMap |-> 2, processedFiles |-> {}, importedFunctions |-> {},
                scanStartTime |-> 0, maxFilesToScan |-> 1000, scanTimeout |-> 30000,
                useCache |-> TRUE, diagnostics |-> {}]
  /\ scan = IdleScan
  /\ parses = [f \in 1..Len(ws) |-> 0]
  /\ app = [pc |-> "idle", bindingsMap |-> 1, navigatorMap |-> 1,
            navigatorServices |-> "own", scans |-> 0]
  /\ services = EmptyMap
  /\ injections = NoInjections
  /\ completed = [bindings |-> EmptyMap, services |-> EmptyMap, injections |-> NoInjections]
  /\ request = NoRequest
  /\ watcher = NoWatcher
  /\ other = NoOther

\* a clear that leaves the entries in the Map
clearKeepsEntries(m) == m

\* this.bindingsMap.clear()
clear(m) == EmptyMap

\* a scan that would read the cache even when told to scan in full
ReadsCacheThoughForced(useCache, forceFullScan) == useCache

\* if (this.useCache && this.cacheService && !forceFullScan): the model's
\* workspace has a folder, so the cache service exists
ReadsCache(useCache, forceFullScan) == useCache /\ ~ forceFullScan

\* scanAll up to the first await of scan: the patterns and the depth are read,
\* the scanner's Map and sets are cleared in place, the limits are read
BeginScanAll(forceFullScan) ==
  /\ app.scans < MaxScans
  /\ app' = [app EXCEPT !.pc = "scan", !.scans = app.scans + 1]
  /\ heap' = [heap EXCEPT ![scanner.bindingsMap] = clear(heap[scanner.bindingsMap])]
  /\ scanner' = [scanner EXCEPT
                   !.processedFiles = {}, !.importedFunctions = {},
                   !.scanStartTime = now,
                   !.maxFilesToScan = Unlimited(config.maxFilesToScan),
                   !.scanTimeout = Unlimited(config.scanTimeout),
                   !.useCache = config.useCache]
  /\ scan' = [IdleScan EXCEPT
                !.pc = IF ReadsCache(config.useCache, forceFullScan)
                       THEN "loadCache" ELSE "findFiles",
                !.forceFullScan = forceFullScan,
                !.patterns = config.containerPaths,
                !.maxDepth = config.maxScanDepth]
  /\ parses' = [f \in DOMAIN parses |-> 0]
  /\ UNCHANGED <<storeVars, navVars, files, config, now, cache>>

\* a scanAll call made while no other one is in progress
ScanAllStart(forceFullScan) ==
  /\ app.pc = "idle"
  /\ BeginScanAll(forceFullScan)
  /\ UNCHANGED <<node, hostVars>>

\* const cacheData = await this.cacheService.loadCache()
LoadCache ==
  /\ scan.pc = "loadCache"
  /\ scan' = IF loadCache(cache, config)
             THEN [scan EXCEPT !.pc = "validate", !.cacheData = cache]
             ELSE [scan EXCEPT !.pc = "findFiles"]
  /\ UNCHANGED <<storeVars, node, hostVars, navVars, files, config, now, cache, heap, scanner, parses, app>>

\* if (await this.cacheService.isCacheValid(maxCacheAge)) { ... return this.bindingsMap }
ValidateCache ==
  /\ scan.pc = "validate"
  /\ IF isCacheValid(cache, config, now, config.cacheMaxAge)
     THEN \E r \in {NewMapRef({scanner.bindingsMap, app.bindingsMap, app.navigatorMap})} :
            /\ scanner' = [scanner EXCEPT !.bindingsMap = r,
                                          !.processedFiles = scan.cacheData.scannedFiles]
            /\ heap' = Collect([heap EXCEPT ![r] = scan.cacheData.bindings],
                               {r, app.bindingsMap, app.navigatorMap})
            /\ scan' = [scan EXCEPT !.pc = "done", !.result = "cached"]
     ELSE /\ scan' = [scan EXCEPT !.pc = "findFiles"]
          /\ UNCHANGED <<heap, scanner>>
  /\ UNCHANGED <<storeVars, node, hostVars, navVars, files, config, now, cache, parses, app>>

\* const batchSize = 50
batchSize == 50

\* candidateFiles.slice(i, i + batchSize), as a set
Batch(candidates, i) ==
  {candidates[j] : j \in {n \in 1..Len(candidates) : i < n /\ n <= i + batchSize}}

\* contentBasedScan: the candidate files are listed and the first batch starts
FindFiles ==
  /\ scan.pc = "findFiles"
  /\ scan' = [scan EXCEPT !.pc = "classify",
                          !.candidates = candidateFiles(files),
                          !.batchStart = 0,
                          !.pending = Batch(candidateFiles(files), 0)]
  /\ UNCHANGED <<storeVars, node, hostVars, navVars, files, config, now, cache, heap, scanner, parses, app>>

\* one callback of the Promise.all of a batch completes: the file lands in
\* bindingFiles or containerFiles in completion order
ClassifyFile(sc, f, class) ==
  [sc EXCEPT
     !.pending = sc.pending \ {f},
     !.bindingFiles = IF class = "bindings" THEN Append(sc.bindingFiles, f)
                      ELSE sc.bindingFiles,
     !.containerFiles = IF class = "container" THEN Append(sc.containerFiles, f)
                        ELSE sc.containerFiles]

Classify(f) ==
  /\ scan.pc = "classify"
  /\ f \in scan.pending
  /\ scan' = ClassifyFile(scan, f,
               IF f \in scanner.processedFiles THEN "none" ELSE FileClass(files[f]))
  /\ UNCHANGED <<storeVars, node, hostVars, navVars, files, config, now, cache, heap, scanner, parses, app>>

\* a batch is complete: the next one starts, or the roots of the second pass
\* are lined up
NextBatch ==
  /\ scan.pc = "classify"
  /\ scan.pending = {}
  /\ scan' = IF scan.batchStart + batchSize < Len(scan.candidates)
             THEN [scan EXCEPT !.batchStart = scan.batchStart + batchSize,
                               !.pending = Batch(scan.candidates, scan.batchStart + batchSize)]
             ELSE [scan EXCEPT !.pc = "content",
                               !.stack = ContentRoots(scan.bindingFiles, scan.containerFiles,
                                                      scan.maxDepth,
                                                      config.maxContainerFilesToScan)]
  /\ UNCHANGED <<storeVars, node, hostVars, navVars, files, config, now, cache, heap, scanner, parses, app>>

\* the scanner's fields and the pending calls, as scanContainerFile takes them
ScannerCore(h, sc, stack) ==
  [map |-> h[sc.bindingsMap], processedFiles |-> sc.processedFiles,
   importedFunctions |-> sc.importedFunctions, maxFilesToScan |-> sc.maxFilesToScan,
   scanTimeout |-> sc.scanTimeout, diagnostics |-> sc.diagnostics, stack |-> stack,
   parsedFile |-> 0]

\* the next call of scanContainerFile, up to its first await
Visit ==
  /\ scan.pc \in {"content", "patterns"}
  /\ scan.stack # <<>>
  /\ \E k \in {scanContainerFile(ScannerCore(heap, scanner, scan.stack), files,
                                 now - scanner.scanStartTime)} :
       /\ heap' = [heap EXCEPT ![scanner.bindingsMap] = k.map]
       /\ scanner' = [scanner EXCEPT !.processedFiles = k.processedFiles,
                                     !.importedFunctions = k.importedFunctions,
                                     !.diagnostics = k.diagnostics]
       /\ scan' = [scan EXCEPT !.stack = k.stack]
       /\ parses' = IF k.parsedFile = 0 THEN parses
                    ELSE [parses EXCEPT ![k.parsedFile] = parses[k.parsedFile] + 1]
  /\ UNCHANGED <<storeVars, node, hostVars, navVars, files, config, now, cache, app>>

\* contentBasedScan has returned: the files of the configured patterns follow
StartPatterns ==
  /\ scan.pc = "content"
  /\ scan.stack = <<>>
  /\ scan' = [scan EXCEPT !.pc = "patterns",
                          !.stack = PatternRoots(files, scan.patterns, scan.maxDepth)]
  /\ UNCHANGED <<storeVars, node, hostVars, navVars, files, config, now, cache, heap, scanner, parses, app>>

\* the end of a full scan: the index is saved when the cache is in use and
\* the index is not empty
Finish ==
  /\ scan.pc = "patterns"
  /\ scan.stack = <<>>
  /\ cache' = IF scanner.useCache /\ heap[scanner.bindingsMap] # EmptyMap
              THEN saveCache(heap[scanner.bindingsMap], scanner.processedFiles, now, config)
              ELSE cache
  /\ scan' = [scan EXCEPT !.pc = "done", !.result = "full"]
  /\ UNCHANGED <<storeVars, node, hostVars, navVars, files, config, now, heap, scanner, parses, app>>

\* scan has returned: this.bindingsMap = <the returned Map>; indexServices
\* clears the indexer's serviceMap in place and awaits the file list
ScanReturned ==
  /\ app.pc = "scan"
  /\ scan.pc = "done"
  /\ app' = [app EXCEPT !.pc = "services", !.bindingsMap = scanner.bindingsMap]
  /\ heap' = Collect(heap, {scanner.bindingsMap, app.navigatorMap})
  /\ scan' = IdleScan
  /\ parses' = [f \in DOMAIN parses |-> 0]
  /\ services' = EmptyMap
  /\ UNCHANGED <<storeVars, node, hostVars, files, config, now, cache, scanner, injections, completed, request>>

\* indexServices fills the serviceMap and returns it; mapInjections clears the
\* three maps of the InjectionMapper in place and awaits the file list
IndexServices ==
  /\ app.pc = "services"
  /\ app' = [app EXCEPT !.pc = "injections"]
  /\ services' = indexServices(EmptyMap, files, 1)
  /\ injections' = NoInjections
  /\ UNCHANGED <<storeVars, node, hostVars, scanVars, completed, request>>

\* mapInjections fills its maps and returns;
\* this.navigator = new Navigator(..., this.bindingsMap, this.serviceMap, ...)
MapInjections ==
  /\ app.pc = "injections"
  /\ \E maps \in {mapInjections(NoInjections, files, 1)} :
       /\ injections' = maps
       /\ completed' = [bindings |-> heap[app.bindingsMap], services |-> services,
                        injections |-> maps]
  /\ app' = [app EXCEPT !.pc = "idle", !.navigatorMap = app.bindingsMap,
                        !.navigatorServices = "indexer"]
  /\ heap' = Collect(heap, {scanner.bindingsMap, app.bindingsMap})
  /\ UNCHANGED <<storeVars, node, hostVars, files, config, now, cache, scanner, scan, parses, services, request>>

\* Date.now() advances. The model lets time pass where the code looks at it:
\* between scans while there is a cache to age, and during a scan that has a
\* timeout
Tick ==
  /\ now < MaxNow
  /\ \/ app.pc = "idle" /\ cache.exists
     \/ app.pc # "idle" /\ scanner.scanTimeout # MAX_SAFE_INTEGER
  /\ now' = now + 1
  /\ UNCHANGED <<storeVars, node, hostVars, navVars, files, config, cache, heap, scanner, scan, parses, app>>

\* the user edits the settings, between scans or while the cache is validated
ChangeConfig(c) ==
  /\ app.pc = "idle" \/ scan.pc = "validate"
  /\ c # config
  /\ config' = c
  /\ UNCHANGED <<storeVars, node, hostVars, navVars, files, now, cache, heap, scanner, scan, parses, app>>

\* the clearCache command
ClearCache ==
  /\ app.pc = "idle" \/ scan.pc = "validate"
  /\ cache.exists
  /\ cache' = NoCache
  /\ UNCHANGED <<storeVars, node, hostVars, navVars, files, config, now, heap, scanner, scan, parses, app>>

\* the steps of a scan that does not read the cache
FullScanStep ==
  \/ FindFiles
  \/ \E f \in 1..Len(files) : Classify(f)
  \/ NextBatch
  \/ Visit
  \/ StartPatterns
  \/ Finish
  \/ ScanReturned
  \/ IndexServices
  \/ MapInjections

ScanStep ==
  \/ LoadCache
  \/ ValidateCache
  \/ FullScanStep

ScanInit ==
  /\ index = EmptyMap
  /\ parsed = {}
  /\ node = NoNode
  /\ \E ws \in Workspaces, disk \in {NoCache, OlderCache} : InitApp(ws, disk)

ScanNext ==
  \/ \E forceFullScan \in BOOLEAN : ScanAllStart(forceFullScan)
  \/ ScanStep
  \/ Tick
  \/ \E c \in Configs : ChangeConfig(c)
  \/ ClearCache

SpecScan == ScanInit /\ [][ScanNext]_vars

\* the scans of a workspace with a file that cannot be read and a file on
\* which the extraction throws
FaultInit ==
  /\ index = EmptyMap
  /\ parsed = {}
  /\ node = NoNode
  /\ InitApp(FaultWorkspace, NoCache)

\* the scans with the settings and the clock left alone
PlainScanNext ==
  \/ \E forceFullScan \in BOOLEAN : ScanAllStart(forceFullScan)
  \/ ScanStep
  \/ ClearCache

SpecFaults == FaultInit /\ [][PlainScanNext]_vars

\* the scans of the workspaces with ignored files on the ways to a file
IgnoreInit ==
  /\ index = EmptyMap
  /\ parsed = {}
  /\ node = NoNode
  /\ \E ws \in {IgnoreWorkspace, GraphWorkspace}, disk \in {NoCache, OlderCache} :
       InitApp(ws, disk)

SpecIgnore == IgnoreInit /\ [][PlainScanNext]_vars

\* src/a.ts binds TYPES.L to A and re-exports src/p.ts; src/b.ts binds
\* TYPES.C to B; src/p.ts and src/q.ts hold container.bind<I>(...) only, which
\* the first pass takes for a mention of the container
RootsWorkspace ==
  << File(dSrc, <<"a", ".", "t", "s">>,
          <<ImportDecl("export", <<>>, <<".", "/", "p">>, 3)>>,
          <<>>, <<BindTo(tTypesL, iA)>>),
     File(dSrc, <<"b", ".", "t", "s">>, <<>>, <<>>, <<BindTo(tTypesC, iB)>>),
     File(dSrc, <<"p", ".", "t", "s">>, <<>>, <<>>, <<BindGenericTo(tTypesL, iB)>>),
     File(dSrc, <<"q", ".", "t", "s">>, <<>>, <<>>, <<BindGenericTo(tOtherL, iA)>>) >>

\* the settings of the cap on container files: 100, 1 and -1 (no cap)
RootConfigs ==
  { BaseConfig,
    [BaseConfig EXCEPT !.maxContainerFilesToScan = 1],
    [BaseConfig EXCEPT !.maxContainerFilesToScan = -1, !.maxScanDepth = 0] }

RootsInit ==
  /\ index = EmptyMap
  /\ parsed = {}
  /\ node = NoNode
  /\ InitApp(RootsWorkspace, NoCache)

RootsNext ==
  \/ PlainScanNext
  \/ \E c \in RootConfigs : ChangeConfig(c)

SpecRoots == RootsInit /\ [][RootsNext]_vars

(***************************************************************************)
(* The file watcher: initialize, setupFileWatchers, the change handler,    *)
(* shouldRescan and invalidateCache                                        *)
(***************************************************************************)

\* const keywords = ['registry', 'Registry', 'container', 'Container', ...]
rescanKeywords ==
  { sRegistryLower, sRegistryUpper, sContainer,
    <<"C", "o", "n", "t", "a", "i", "n", "e", "r">>,
    <<"b", "i", "n", "d", "i", "n", "g", "s">>,
    <<"B", "i", "n", "d", "i", "n", "g", "s">> }

\* keywords.some(keyword => filePath.includes(keyword)): no keyword holds a
\* path separator, so it occurs in the path when it occurs in a segment
shouldRescan(file) ==
  \E keyword \in rescanKeywords :
    \/ Includes(file.base, keyword)
    \/ \E i \in 1..Len(file.dir) : Includes(file.dir[i], keyword)

\* initialize: const shouldForceInitialScan = !hasCachedData || !useCache;
\* await this.scanAll(progress, shouldForceInitialScan), up to the first await
\* of scan
Initialize ==
  /\ app.scans = 0
  /\ ScanAllStart(~ cache.exists \/ ~ config.useCache)

\* initialize after its scanAll: setupFileWatchers reads autoScanOnSave once
\* and creates the watcher when it is set
SetupFileWatchers ==
  /\ app.pc = "idle"
  /\ app.scans > 0
  /\ ~ watcher.setup
  /\ watcher' = [watcher EXCEPT !.setup = TRUE, !.installed = config.autoScanOnSave]
  /\ UNCHANGED <<storeVars, node, other, scanVars, appVars, request>>

\* the user removes the bind calls from a file and saves it, between scans;
\* an installed watcher will deliver a change event for the file (raisedOff
\* remembers the events raised while autoScanOnSave was off)
EditFile(f) ==
  /\ app.pc = "idle"
  /\ files[f].stmts # <<>>
  /\ files' = [files EXCEPT ![f].stmts = <<>>]
  /\ watcher' = IF watcher.installed
                THEN [watcher EXCEPT
                        !.events = watcher.events \cup {f},
                        !.raisedOff = IF config.autoScanOnSave
                                      THEN watcher.raisedOff \ {f}
                                      ELSE watcher.raisedOff \cup {f}]
                ELSE watcher
  /\ UNCHANGED <<storeVars, node, other, config, now, cache, heap, scanner, scan, parses,
                 appVars, request>>

\* the onDidChange handler up to its first await: shouldRescan starts
\* invalidateCache without awaiting it (clearCache gets as far as starting the
\* removal of an existing cache directory), then scanAll() runs up to the
\* first await of scan
FileChanged(f) ==
  /\ f \in watcher.events
  /\ IF shouldRescan(files[f])
     THEN /\ app.pc = "idle"
          /\ BeginScanAll(FALSE)
          /\ watcher' = [watcher EXCEPT !.events = watcher.events \ {f},
                                        !.raisedOff = watcher.raisedOff \ {f},
                                        !.clearing = watcher.clearing \/ cache.exists,
                                        !.rescan = app.scans + 1]
          /\ UNCHANGED <<node, other>>
     ELSE /\ watcher' = [watcher EXCEPT !.events = watcher.events \ {f},
                                        !.raisedOff = watcher.raisedOff \ {f}]
          /\ UNCHANGED <<storeVars, node, other, scanVars, appVars, request>>

\* await fs.promises.rm(cachePath, { recursive: true, force: true }) completes
RemovalCompletes ==
  /\ watcher.clearing
  /\ cache' = NoCache
  /\ watcher' = [watcher EXCEPT !.clearing = FALSE]
  /\ UNCHANGED <<storeVars, node, other, files, config, now, heap, scanner, scan, parses,
                 appVars, request>>

\* the settings with auto-rescan on and off
WatchConfigs == {BaseConfig, [BaseConfig EXCEPT !.autoScanOnSave = FALSE]}

WatchInit ==
  /\ index = EmptyMap
  /\ parsed = {}
  /\ node = NoNode
  /\ InitApp(FlatWorkspace, NoCache)

\* activation, then edits, change events, settings changes and scanAll calls
\* of the commands
WatchNext ==
  \/ Initialize
  \/ SetupFileWatchers
  \/ \E forceFullScan \in BOOLEAN : app.scans > 0 /\ ScanAllStart(forceFullScan)
  \/ ScanStep
  \/ \E f \in 1..Len(files) : EditFile(f)
  \/ \E f \in 1..Len(files) : FileChanged(f)
  \/ RemovalCompletes
  \/ \E c \in WatchConfigs : ChangeConfig(c)

SpecWatch == WatchInit /\ [][WatchNext]_vars

(***************************************************************************)
(* Overlapping scans: nothing keeps scanAll from being called while an     *)
(* earlier call is suspended at an await. The actions of a scan act on the *)
(* activation that runs; other holds the suspended one.                    *)
(***************************************************************************)

\* scanAll is called (a command, a change event) while a scanAll is suspended
\* at an await: the new call runs up to the first await of scan
OverlapStart(forceFullScan) ==
  /\ app.pc # "idle"
  /\ other = NoOther
  /\ BeginScanAll(forceFullScan)
  /\ other' = [scan |-> scan, pc |-> app.pc]
  /\ UNCHANGED <<node, watcher>>

\* the await of the running activation is still pending when that of the
\* suspended one resolves: the event loop continues the suspended one
Switch ==
  /\ other # NoOther
  /\ other' = [scan |-> scan, pc |-> app.pc]
  /\ scan' = other.scan
  /\ app' = [app EXCEPT !.pc = other.pc]
  /\ UNCHANGED <<storeVars, node, watcher, files, config, now, cache, heap, scanner, parses,
                 navVars>>

OverlapInit ==
  /\ index = EmptyMap
  /\ parsed = {}
  /\ node = NoNode
  /\ InitApp(FlatWorkspace, NoCache)

OverlapNext ==
  \/ \E forceFullScan \in BOOLEAN : ScanAllStart(forceFullScan)
  \/ ScanStep
  \/ \E forceFullScan \in BOOLEAN : OverlapStart(forceFullScan)
  \/ Switch

SpecOverlap == OverlapInit /\ [][OverlapNext]_vars

(***************************************************************************)
(* fileUtils.searchForClass                                                *)
(***************************************************************************)

alphabetUpper ==
  <<"A", "B", "C", "D", "E", "F", "G", "H", "I", "J", "K", "L", "M",
    "N", "O", "P", "Q", "R", "S", "T", "U", "V", "W", "X", "Y", "Z">>
alphabetLower ==
  <<"a", "b", "c", "d", "e", "f", "g", "h", "i", "j", "k", "l", "m",
    "n", "o", "p", "q", "r", "s", "t", "u", "v", "w", "x", "y", "z">>

\* String.prototype.toLowerCase on one character
toLowerCase(c) ==
  IF c \in Upper
  THEN alphabetLower[CHOOSE i \in 1..Len(alphabetUpper) : alphabetUpper[i] = c]
  ELSE c

\* str.replace(/([a-z0-9]|(?=[A-Z]))([A-Z])/g, '$1' + sep + '$2').toLowerCase():
\* the separator lands before every capital letter, the first one included
RECURSIVE camelTo(_, _)
camelTo(str, sep) ==
  IF str = <<>> THEN <<>>
  ELSE (IF Head(str) \in Upper THEN <<sep>> ELSE <<>>)
         \o <<toLowerCase(Head(str))>> \o camelTo(Tail(str), sep)

camelToKebab(str) == camelTo(str, "-")
camelToSnake(str) == camelTo(str, "_")

\* className.charAt(0).toLowerCase() + className.slice(1)
lowerFirst(className) ==
  IF className = <<>> THEN <<>>
  ELSE <<toLowerCase(Head(className))>> \o Tail(className)

\* the file names of searchPatterns, in order
searchPatterns(className) ==
  << className \o sDotTs, className \o <<".", "j", "s">>,
     className \o sDotTsx, className \o <<".", "j", "s", "x">>,
     lowerFirst(className) \o sDotTs,
     camelToKebab(className) \o sDotTs,
     camelToSnake(className) \o sDotTs >>

\* findFiles('**/<name>') outside node_modules
FilesNamed(fs, name) ==
  SetToSeq({f \in 1..Len(fs) :
              /\ fs[f].base = name
              /\ ~ Includes(fs[f].dir, <<"n", "o", "d", "e", "_", "m", "o", "d", "u", "l", "e", "s">>)})

\* /(?:export\s+)?(?:class|interface)\s+<className>\b/.test(content)
DeclaresClass(file, className) ==
  \E i \in 1..Len(file.classes) : file.classes[i].name = className

\* searchForClass: the files of the first pattern that finds any; when none
\* does, every TypeScript file is read (readFileSync throws on one that cannot
\* be read) and the ones declaring the class are returned
searchForClass(className, fs) ==
  IF \E i \in 1..7 : FilesNamed(fs, searchPatterns(className)[i]) # <<>>
  THEN [threw |-> FALSE,
        files |-> FilesNamed(fs, searchPatterns(className)[
                    CHOOSE i \in 1..7 :
                      /\ FilesNamed(fs, searchPatterns(className)[i]) # <<>>
                      /\ \A j \in 1..(i - 1) :
                           FilesNamed(fs, searchPatterns(className)[j]) = <<>>])]
  ELSE IF \E f \in 1..Len(fs) : IsTypeScriptFile(fs[f]) /\ ~ fs[f].readable
  THEN [threw |-> TRUE, files |-> <<>>]
  ELSE [threw |-> FALSE,
        files |-> SetToSeq({f \in 1..Len(fs) :
                              IsTypeScriptFile(fs[f]) /\ DeclaresClass(fs[f], className)})]

(***************************************************************************)
(* Navigator: the three resolver entry points. A request is a record: the  *)
(* bindings the lookup produced (found), the items of the quick pick that  *)
(* was shown (offered), the item the user selected (chosen), the binding   *)
(* whose implementation is navigated to or located (binding), the file     *)
(* that is opened or returned (file, 0: none) and the serviceMap the       *)
(* Navigator of the request holds (services).                              *)
(***************************************************************************)

\* the result of searchForClass in navigateToImplementation
NavigateToFound(req, foundFiles) ==
  IF foundFiles.threw THEN [req EXCEPT !.phase = "done"]
  ELSE IF Len(foundFiles.files) = 0
  THEN [req EXCEPT !.phase = "done", !.message = TRUE, !.named = req.binding.implementation]
  ELSE IF Len(foundFiles.files) = 1
  THEN [req EXCEPT !.phase = "done", !.file = foundFiles.files[1]]
  ELSE [req EXCEPT !.phase = "pickFile", !.fileItems = foundFiles.files]

\* navigateToImplementation(binding)
navigateToImplementation(req, binding, serviceMap, fs) ==
  IF MapHas(serviceMap, binding.implementation)
  THEN [req EXCEPT !.phase = "done", !.binding = binding,
                   !.file = MapGet(serviceMap, binding.implementation).file]
  ELSE NavigateToFound([req EXCEPT !.binding = binding],
                       searchForClass(binding.implementation, fs))

\* handleBindings(bindings, symbol): one binding is navigated to, several are
\* shown in a quick pick
handleBindings(req, bindings, serviceMap, fs) ==
  IF Len(bindings) = 1
  THEN navigateToImplementation([req EXCEPT !.found = bindings], bindings[1], serviceMap, fs)
  ELSE [req EXCEPT !.found = bindings, !.offered = bindings, !.phase = "pickBinding"]

\* openFileAndNavigate(vscode.Uri.file(serviceInfo.file), name)
OpenService(req, serviceMap, name) ==
  [req EXCEPT !.phase = "done", !.file = MapGet(serviceMap, name).file]

\* "token = mappedToken" when the token starts with 'I' and the interface map
\* has a (non-empty) token for it
MappedToken(nav, token) ==
  IF StartsWith(token, <<"I">>) /\ MapGet(nav.injections.interfaceToToken, token) # <<>>
  THEN MapGet(nav.injections.interfaceToToken, token)
  ELSE token

\* goToImplementationForToken(token)
goToImplementationForToken(req, nav, token, fs) ==
  IF Len(MapGet(nav.bindings, MappedToken(nav, token))) > 0
  THEN handleBindings(req, MapGet(nav.bindings, MappedToken(nav, token)), nav.services, fs)
  ELSE IF MapHas(nav.services, MappedToken(nav, token))
  THEN OpenService(req, nav.services, MappedToken(nav, token))
  ELSE [req EXCEPT !.phase = "done", !.message = TRUE, !.named = MappedToken(nav, token)]

\* getImplementationLocation after the lookup: bindings[0] is located; its
\* file comes from the serviceMap or is foundFiles[0]; a rejected search
\* rejects the call
LocateFirst(req, bindings, nav, token, fs) ==
  IF Len(bindings) > 0 /\ MapHas(nav.services, bindings[1].implementation)
  THEN [req EXCEPT !.phase = "done", !.found = bindings, !.binding = bindings[1],
                   !.file = MapGet(nav.services, bindings[1].implementation).file]
  ELSE IF Len(bindings) > 0 /\ searchForClass(bindings[1].implementation, fs).threw
  THEN [req EXCEPT !.phase = "done", !.found = bindings, !.binding = bindings[1]]
  ELSE IF Len(bindings) > 0 /\ Len(searchForClass(bindings[1].implementation, fs).files) > 0
  THEN [req EXCEPT !.phase = "done", !.found = bindings, !.binding = bindings[1],
                   !.file = searchForClass(bindings[1].implementation, fs).files[1]]
  ELSE IF MapHas(nav.services, token)
  THEN OpenService([req EXCEPT !.found = bindings], nav.services, token)
  ELSE [req EXCEPT !.phase = "done", !.found = bindings]

\* getImplementationLocation(token)
getImplementationLocation(req, nav, token, fs) ==
  LocateFirst(req, MapGet(nav.bindings, MappedToken(nav, token)), nav,
              MappedToken(nav, token), fs)

\* the @inject parameters of a file in text order, each with its class
RECURSIVE FileInjects(_, _)
FileInjects(classes, i) ==
  IF i > Len(classes) THEN <<>>
  ELSE [j \in 1..Len(classes[i].injects) |-> [class |-> i, inject |-> classes[i].injects[j]]]
         \o FileInjects(classes, i + 1)

\* the least position of a non-empty set of positions
First(positions) == CHOOSE k \in positions : \A j \in positions : k <= j

\* findInjectionTokenForProperty(propertyName, fileText), <<>> for null. The
\* constructor pattern matches the first "@inject(token) private <name>:";
\* the property pattern then matches from the first @inject of a parameter
\* list in which a name ending in <name> follows (a ';' ends the match, and
\* the bodies between two parameter lists hold one)
findInjectionTokenForProperty(propertyName, injects) ==
  IF \E k \in 1..Len(injects) : injects[k].inject.property = propertyName
  THEN injects[First({k \in 1..Len(injects) :
                        injects[k].inject.property = propertyName})].inject.token
  ELSE IF \E k \in 1..Len(injects) : EndsWith(injects[k].inject.property, propertyName)
  THEN injects[First({j \in 1..Len(injects) :
                  injects[j].class =
                    injects[First({k \in 1..Len(injects) :
                       EndsWith(injects[k].inject.property, propertyName)})].class})].inject.token
  ELSE <<>>

\* the bindings of an injection token found in the document: the exact key,
\* else the first key whose text after the last dot equals the token's
TokenBindings(bindingsMap, injectionToken) ==
  IF Len(MapGet(bindingsMap, injectionToken)) > 0 THEN MapGet(bindingsMap, injectionToken)
  ELSE IF \E k \in 1..Len(bindingsMap) :
            LastDotPart(bindingsMap[k].key) = LastDotPart(injectionToken)
  THEN bindingsMap[First({k \in 1..Len(bindingsMap) :
                            LastDotPart(bindingsMap[k].key) = LastDotPart(injectionToken)})].val
  ELSE <<>>

sService == <<"S", "e", "r", "v", "i", "c", "e">>

\* key.replace(/Service$/, '')
StripService(key) ==
  IF EndsWith(key, sService) THEN SubSeq(key, 1, Len(key) - Len(sService)) ELSE key

\* the filter of partialMatches
KeyMatches(key, symbol) ==
  \/ key = symbol
  \/ Includes(key, symbol)
  \/ Includes(symbol, key)
  \/ EndsWith(key, sService) /\ EndsWith(symbol, sService)
  \/ StripService(key) = StripService(symbol)

\* Array.from(this.bindingsMap.entries()).filter(...).flatMap(([_, bindings]) => bindings)
RECURSIVE partialMatches(_, _, _)
partialMatches(bindingsMap, i, symbol) ==
  IF i > Len(bindingsMap) THEN <<>>
  ELSE (IF KeyMatches(bindingsMap[i].key, symbol) THEN bindingsMap[i].val ELSE <<>>)
         \o partialMatches(bindingsMap, i + 1, symbol)

\* symbol.match(/^[a-z]/) or the line holds '.' + symbol
IsProperty(symbol, isPropertyAccess) ==
  isPropertyAccess \/ (symbol # <<>> /\ Head(symbol) \in Lower)

\* step 1: the symbol starts with 'I' and the interface map has a token for
\* it: this.bindingsMap.get(token)
InterfaceBindings(nav, symbol) ==
  IF StartsWith(symbol, <<"I">>) /\ MapGet(nav.injections.interfaceToToken, symbol) # <<>>
  THEN MapGet(nav.bindings, MapGet(nav.injections.interfaceToToken, symbol))
  ELSE <<>>

\* step 2, pre-scanned: getInjectionInfoForProperty(symbol), then
\* this.bindingsMap.get(injectionInfo.token)
PropertyBindings(nav, symbol, isPropertyAccess) ==
  IF IsProperty(symbol, isPropertyAccess) /\ MapHas(nav.injections.propertyToInterface, symbol)
  THEN MapGet(nav.bindings, MapGet(nav.injections.propertyToInterface, symbol).token)
  ELSE <<>>

\* step 2, in the document: the bindings of the token that
\* findInjectionTokenForProperty finds in the text of the current file
DocumentBindings(nav, symbol, isPropertyAccess, injectionToken) ==
  IF IsProperty(symbol, isPropertyAccess) /\ injectionToken # <<>>
  THEN TokenBindings(nav.bindings, injectionToken)
  ELSE <<>>

\* goToImplementation from "Regular word-based navigation" on, with the cursor
\* on the word symbol; injectionToken is what findInjectionTokenForProperty
\* finds in the document
goToImplementation(req, nav, symbol, isPropertyAccess, injectionToken, fs) ==
  IF Len(InterfaceBindings(nav, symbol)) > 0
  THEN handleBindings([req EXCEPT !.step = "interface"],
                      InterfaceBindings(nav, symbol), nav.services, fs)
  ELSE IF Len(PropertyBindings(nav, symbol, isPropertyAccess)) > 0
  THEN handleBindings([req EXCEPT !.step = "property"],
                      PropertyBindings(nav, symbol, isPropertyAccess), nav.services, fs)
  ELSE IF Len(DocumentBindings(nav, symbol, isPropertyAccess, injectionToken)) > 0
  THEN handleBindings([req EXCEPT !.step = "document"],
                      DocumentBindings(nav, symbol, isPropertyAccess, injectionToken),
                      nav.services, fs)
  ELSE IF Len(MapGet(nav.bindings, symbol)) > 0
  THEN handleBindings([req EXCEPT !.step = "direct"], MapGet(nav.bindings, symbol),
                      nav.services, fs)
  ELSE IF MapHas(nav.services, symbol)
  THEN OpenService([req EXCEPT !.step = "service"], nav.services, symbol)
  ELSE IF partialMatches(nav.bindings, 1, symbol) = <<>>
  THEN [req EXCEPT !.phase = "done", !.message = TRUE, !.named = symbol]
  ELSE handleBindings([req EXCEPT !.step = "fuzzy"], partialMatches(nav.bindings, 1, symbol),
                      nav.services, fs)

\* the name of the one method of a class that has methods
sRun == <<"r", "u", "n">>

\* no call "x.y(" stands on the line at or before the cursor
NoCall == [serviceName |-> <<>>, methodName |-> <<>>]

\* /private\s+<serviceName>\s*:\s*(\w+)/.exec(text): the type of the first
\* parameter "private <serviceName>: <type>" of the document, <<>> for none
ServiceType(injects, serviceName) ==
  IF \E k \in 1..Len(injects) : injects[k].inject.property = serviceName
  THEN injects[First({k \in 1..Len(injects) :
                        injects[k].inject.property = serviceName})].inject.type
  ELSE <<>>

\* /\b<methodName>\s*\(/.exec(fileText) in the file of the service
DeclaresMethod(file, methodName) ==
  \E i \in 1..Len(file.classes) : file.classes[i].hasMethods /\ methodName = sRun

\* navigateToMethod(serviceName, methodName, document): the file it opens
\* (0: none) and whether it has moved the cursor to the method
navigateToMethod(call, serviceType, serviceMap, fs) ==
  IF call = NoCall \/ serviceType = <<>> \/ ~ MapHas(serviceMap, serviceType)
  THEN [opened |-> 0, found |-> FALSE]
  ELSE [opened |-> MapGet(serviceMap, serviceType).file,
        found |-> DeclaresMethod(fs[MapGet(serviceMap, serviceType).file], call.methodName)]

\* goToImplementation with an active editor: the method call of the line
\* first, then the word under the cursor
goToImplementationAt(req, nav, symbol, isPropertyAccess, injectionToken, method, fs) ==
  IF method.found
  THEN [req EXCEPT !.phase = "done", !.step = "method", !.opened = method.opened,
                   !.file = method.opened]
  ELSE goToImplementation([req EXCEPT !.opened = method.opened], nav, symbol,
                          isPropertyAccess, injectionToken, fs)

(***************************************************************************)
(* InjectedPropertyTracker, identifierFilter and InversifyHoverProvider    *)
(***************************************************************************)

\* findClassesWithInjections: the @inject parameters of the class that carry
\* private, protected, public or readonly (every Inject of the model does)
injectedProperties(class) ==
  {class.injects[j].property : j \in 1..Len(class.injects)}

\* isInjectedProperty(filePath, className, propertyName) for the cls-th class
\* of the file (0: the position is in no class); a file that cannot be read
\* has no entry in the map
isInjectedProperty(file, cls, propertyName) ==
  /\ cls \in 1..Len(file.classes)
  /\ file.readable
  /\ propertyName \in injectedProperties(file.classes[cls])

\* entries of BUILT_IN_IDENTIFIERS
BUILT_IN_IDENTIFIERS ==
  { <<"l", "o", "g">>, <<"k", "e", "y", "s">>, <<"b", "i", "n", "d">>, <<"t", "o">>,
    <<"i", "n", "j", "e", "c", "t">> }

\* shouldExcludeIdentifier: a built-in, or /^_/, /^[A-Z_]+$/, /^[a-z]$/, /^\d/
shouldExcludeIdentifier(identifier) ==
  \/ identifier \in BUILT_IN_IDENTIFIERS
  \/ identifier # <<>> /\ Head(identifier) = "_"
  \/ identifier # <<>> /\ \A i \in 1..Len(identifier) : identifier[i] \in Upper \cup {"_"}
  \/ Len(identifier) = 1 /\ identifier[1] \in Lower
  \/ identifier # <<>> /\ Head(identifier) \in Digits

\* shouldProcessIdentifier: both of its remaining branches return true
shouldProcessIdentifier(identifier) == ~ shouldExcludeIdentifier(identifier)

sThis == <<"t", "h", "i", "s">>

\* the token provideHover looks up, <<>> when it returns before the lookup:
\* pattern 1 takes the TYPES.x under the cursor, pattern 2 the property of
\* "this.x" when the tracker confirms it, pattern 3 the word under the cursor
tokenToCheck(pattern, text, word, injected) ==
  IF pattern = "types" THEN text
  ELSE IF pattern = "this" /\ injected THEN text
  ELSE IF shouldProcessIdentifier(word) THEN word
  ELSE <<>>

\* provideHover from the lookup on: a hover is returned when
\* getImplementationLocation returns a location
provideHover(req, nav, token, fs) ==
  IF token = <<>> THEN [req EXCEPT !.phase = "done"]
  ELSE getImplementationLocation([req EXCEPT !.lookup = token], nav, token, fs)

(***************************************************************************)
(* The resolver requests, made at any time: the commands and providers go  *)
(* through InversifyNavigator to its current Navigator                     *)
(***************************************************************************)

\* the tokens the CodeLens and hover providers ask about
RequestTokens == {tTypesL, tTypesC, <<"I">>}

\* the words under the cursor
RequestWords == {<<"L">>, <<"I">>, sDep, iA, iB, sSvc, iIm}

\* the calls "x.y(" on the line of the cursor
RequestCalls ==
  { NoCall, [serviceName |-> sSvc, methodName |-> sRun],
    [serviceName |-> sSvc, methodName |-> <<"g", "e", "t">>] }

\* a file declares at most this many classes
MaxClasses == 1

\* what the current Navigator reads: the Map and the serviceMap its
\* constructor was given, and the InjectionMapper
NavigatorView ==
  [bindings |-> heap[app.navigatorMap],
   services |-> IF app.navigatorServices = "indexer" THEN services ELSE EmptyMap,
   injections |-> injections]

\* a request through the current Navigator
NewRequest(entry, symbol) ==
  [NoRequest EXCEPT !.entry = entry, !.symbol = symbol, !.services = app.navigatorServices]

\* no quick pick is open
NoPickOpen == request.phase \in {"idle", "done"}

\* the command inverigator.goToImplementation
GoToImplementation(symbol, isPropertyAccess, doc, cls, call) ==
  /\ NoPickOpen
  /\ cls \in 0..Len(files[doc].classes)
  /\ request' = goToImplementationAt(
                  [NewRequest("goToImplementation", symbol)
                     EXCEPT !.doc = doc, !.cls = cls, !.propertyAccess = isPropertyAccess],
                  NavigatorView, symbol, isPropertyAccess,
                  findInjectionTokenForProperty(symbol, FileInjects(files[doc].classes, 1)),
                  navigateToMethod(call, ServiceType(FileInjects(files[doc].classes, 1),
                                                     call.serviceName),
                                   NavigatorView.services, files),
                  files)
  /\ UNCHANGED <<storeVars, node, hostVars, scanVars, appVars>>

\* the command of a CodeLens
GoToImplementationForToken(token) ==
  /\ NoPickOpen
  /\ request' = goToImplementationForToken(NewRequest("goToImplementationForToken", token),
                                           NavigatorView, token, files)
  /\ UNCHANGED <<storeVars, node, hostVars, scanVars, appVars>>

\* the CodeLens and hover providers ask for a location
GetImplementationLocation(token) ==
  /\ NoPickOpen
  /\ request' = getImplementationLocation(NewRequest("getImplementationLocation", token),
                                          NavigatorView, token, files)
  /\ UNCHANGED <<storeVars, node, hostVars, scanVars, appVars>>

\* the properties x of the "this.x" under the cursor
HoverProperties == {sDep, sSvc, iIm, <<"l", "o", "g">>}

\* the editor asks for a hover: on a TYPES.x, on a "this.x" (the word under
\* the cursor is then "this" or x) or on another word, at a position in the
\* cls-th class of the document (0: in none)
ProvideHover(pattern, text, word, doc, cls) ==
  /\ NoPickOpen
  /\ cls \in 0..Len(files[doc].classes)
  /\ \/ pattern = "types" /\ text \in {tTypesL, tTypesC} /\ word = sTYPES
     \/ pattern = "this" /\ text \in HoverProperties /\ word \in {sThis, text}
     \/ pattern = "word" /\ text \in RequestWords /\ word = text
  /\ request' = provideHover(
                  [NewRequest("provideHover", text)
                     EXCEPT !.doc = doc, !.cls = cls, !.pattern = pattern],
                  NavigatorView,
                  tokenToCheck(pattern, text, word, isInjectedProperty(files[doc], cls, text)),
                  files)
  /\ UNCHANGED <<storeVars, node, hostVars, scanVars, appVars>>

\* the user selects an item of "Multiple implementations found":
\* navigateToImplementation(selected.binding), with the serviceMap the
\* Navigator of the request holds
SelectBinding(i) ==
  /\ request.phase = "pickBinding"
  /\ i \in 1..Len(request.offered)
  /\ request' = navigateToImplementation([request EXCEPT !.chosen = request.offered[i]],
                  request.offered[i],
                  IF request.services = "indexer" THEN services ELSE EmptyMap,
                  files)
  /\ UNCHANGED <<storeVars, node, hostVars, scanVars, appVars>>

\* the user selects an item of "Multiple files found"
SelectFile(i) ==
  /\ request.phase = "pickFile"
  /\ i \in 1..Len(request.fileItems)
  /\ request' = [request EXCEPT !.phase = "done", !.file = request.fileItems[i]]
  /\ UNCHANGED <<storeVars, node, hostVars, scanVars, appVars>>

\* the user dismisses the quick pick: showQuickPick resolves to undefined
Dismiss ==
  /\ request.phase \in {"pickBinding", "pickFile"}
  /\ request' = [request EXCEPT !.phase = "done"]
  /\ UNCHANGED <<storeVars, node, hostVars, scanVars, appVars>>

\* the quick picks hold at most this many items
MaxItems == 4

NavInit ==
  /\ index = EmptyMap
  /\ parsed = {}
  /\ node = NoNode
  /\ \E ws \in Workspaces : InitApp(ws, NoCache)

NavNext ==
  \/ \E forceFullScan \in BOOLEAN : ScanAllStart(forceFullScan)
  \/ ScanStep
  \/ \E symbol \in RequestWords, isPropertyAccess \in BOOLEAN :
       GoToImplementation(symbol, isPropertyAccess, 1, 0, NoCall)
  \/ \E token \in RequestTokens : GoToImplementationForToken(token)
  \/ \E token \in RequestTokens : GetImplementationLocation(token)
  \/ \E i \in 1..MaxItems : SelectBinding(i)
  \/ \E i \in 1..MaxItems : SelectFile(i)
  \/ Dismiss

SpecNav == NavInit /\ [][NavNext]_vars

(***************************************************************************)
(* SpecResolve: the resolver requests after the first scan, with every     *)
(* document, cursor position and line of the model                         *)
(***************************************************************************)

ResolveInit ==
  /\ index = EmptyMap
  /\ parsed = {}
  /\ node = NoNode
  /\ \E ws \in NavWorkspaces \cup {OrderWorkspace} : InitApp(ws, NoCache)

\* the first scanAll, forced full as at activation, and then the requests
ResolveNext ==
  \/ app.scans = 0 /\ ScanAllStart(TRUE)
  \/ FullScanStep
  \/ \E symbol \in RequestWords, isPropertyAccess \in BOOLEAN, doc \in 1..Len(files),
          cls \in 0..MaxClasses, call \in RequestCalls :
       app.scans > 0 /\ app.pc = "idle"
         /\ GoToImplementation(symbol, isPropertyAccess, doc, cls, call)
  \/ \E token \in RequestTokens :
       app.scans > 0 /\ app.pc = "idle" /\ GoToImplementationForToken(token)
  \/ \E token \in RequestTokens :
       app.scans > 0 /\ app.pc = "idle" /\ GetImplementationLocation(token)
  \/ \E text \in {tTypesL, tTypesC} :
       app.scans > 0 /\ app.pc = "idle" /\ ProvideHover("types", text, sTYPES, 1, 0)
  \/ \E text \in HoverProperties, onThis \in BOOLEAN, doc \in 1..Len(files),
          cls \in 0..MaxClasses :
       app.scans > 0 /\ app.pc = "idle"
         /\ ProvideHover("this", text, IF onThis THEN sThis ELSE text, doc, cls)
  \/ \E text \in RequestWords :
       app.scans > 0 /\ app.pc = "idle" /\ ProvideHover("word", text, text, 1, 0)
  \/ \E i \in 1..MaxItems : SelectBinding(i)
  \/ \E i \in 1..MaxItems : SelectFile(i)
  \/ Dismiss

SpecResolve == ResolveInit /\ [][ResolveNext]_vars

(***************************************************************************)
(* Claims about the resolver (checked under SpecNav)                       *)
(***************************************************************************)

\* C1: while scanAll is in progress, every resolution request observes
\* exactly the binding index, service map and injection maps of the last
\* completed scan, never emptied or partly filled ones.
C1_RequestsSeeLastCompletedIndex ==
  [][(app.pc # "idle" /\ NoPickOpen /\ request' # request)
       => NavigatorView = completed]_vars

\* the implementations of a sequence of bindings
Implementations(bindings) ==
  {bindings[i].implementation : i \in 1..Len(bindings)}

\* C2: when the lookup of a request produced bindings with two or more
\* distinct implementations, all of them are offered as candidates and the
\* only binding navigated to or located is the one the user selected (none
\* when the choice was dismissed).
C2_AllCandidatesOfferedNoSilentPick ==
  Cardinality(Implementations(request.found)) >= 2 =>
    /\ request.offered = request.found
    /\ request.binding # NoBinding =>
         /\ request.binding = request.chosen
         /\ \E i \in 1..Len(request.offered) : request.offered[i] = request.chosen
    /\ request.file # 0 => request.binding # NoBinding

(***************************************************************************)
(* Claims about the resolution steps (checked under SpecResolve)           *)
(***************************************************************************)

\* what a request yields before any choice: the implementations of the
\* bindings it found and, when it found none, the file it opened
Candidates(req) ==
  [implementations |-> Implementations(req.found),
   file |-> IF req.found = <<>> THEN req.file ELSE 0]

\* a request is made in this step
RequestMade == NoPickOpen /\ request' # request /\ request'.entry # "none"

\* C11: when the injection mapper maps the interface I to the token T,
\* resolving the symbol I (goToImplementation, goToImplementationForToken)
\* yields the same implementation candidates as resolving T directly, in
\* every state of the binding index.
C11_InterfaceResolvesAsItsToken ==
  [][(/\ RequestMade
      /\ request'.entry \in {"goToImplementation", "goToImplementationForToken"}
      /\ MapGet(injections.interfaceToToken, request'.symbol) # <<>>)
       => Candidates(request') =
            Candidates(goToImplementationForToken(
              NewRequest("goToImplementationForToken",
                         MapGet(injections.interfaceToToken, request'.symbol)),
              NavigatorView, MapGet(injections.interfaceToToken, request'.symbol),
              files))]_vars

\* the first of the five resolution steps that produces something for the
\* word symbol, and the bindings it produces
FirstSuccess(nav, symbol, isPropertyAccess, injectionToken) ==
  IF Len(InterfaceBindings(nav, symbol)) > 0
  THEN [step |-> "interface", found |-> InterfaceBindings(nav, symbol)]
  ELSE IF Len(PropertyBindings(nav, symbol, isPropertyAccess)) > 0
  THEN [step |-> "property", found |-> PropertyBindings(nav, symbol, isPropertyAccess)]
  ELSE IF Len(DocumentBindings(nav, symbol, isPropertyAccess, injectionToken)) > 0
  THEN [step |-> "property",
        found |-> DocumentBindings(nav, symbol, isPropertyAccess, injectionToken)]
  ELSE IF Len(MapGet(nav.bindings, symbol)) > 0
  THEN [step |-> "direct", found |-> MapGet(nav.bindings, symbol)]
  ELSE IF MapHas(nav.services, symbol) THEN [step |-> "service", found |-> <<>>]
  ELSE IF partialMatches(nav.bindings, 1, symbol) # <<>>
  THEN [step |-> "fuzzy", found |-> partialMatches(nav.bindings, 1, symbol)]
  ELSE [step |-> "none", found |-> <<>>]

\* the step of the resolution order a request ended in
StepOf(req) == IF req.step = "document" THEN "property" ELSE req.step

\* C12: goToImplementation tries interface indirection, property-injection
\* indirection, direct key lookup, service-class self-resolution and fuzzy
\* fallback in this order, and its result is that of the first step that
\* produced something.
C12_FirstSuccessfulStepWins ==
  [][(RequestMade /\ request'.entry = "goToImplementation")
       => /\ StepOf(request') =
               FirstSuccess(NavigatorView, request'.symbol, request'.propertyAccess,
                 findInjectionTokenForProperty(request'.symbol,
                   FileInjects(files[request'.doc].classes, 1))).step
          /\ request'.found =
               FirstSuccess(NavigatorView, request'.symbol, request'.propertyAccess,
                 findInjectionTokenForProperty(request'.symbol,
                   FileInjects(files[request'.doc].classes, 1))).found]_vars

\* C26 as stated: when goToImplementation takes its result from a key that
\* matches only inexactly (the last-segment match of the injection token
\* found in the document, or the fuzzy fallback), every exact strategy has
\* nothing for the symbol: not the interface map, not the pre-scanned
\* property, not the exact key of the injection token, not the symbol as a
\* key, not the symbol as a service class.
C26_InexactMatchOnlyAfterExactStrategies ==
  [][(/\ RequestMade /\ request'.entry = "goToImplementation"
      /\ \/ request'.step = "fuzzy"
         \/ /\ request'.step = "document"
            /\ MapGet(NavigatorView.bindings,
                      findInjectionTokenForProperty(request'.symbol,
                        FileInjects(files[request'.doc].classes, 1))) = <<>>)
       => /\ InterfaceBindings(NavigatorView, request'.symbol) = <<>>
          /\ PropertyBindings(NavigatorView, request'.symbol, request'.propertyAccess) = <<>>
          /\ MapGet(NavigatorView.bindings, request'.symbol) = <<>>
          /\ ~ MapHas(NavigatorView.services, request'.symbol)]_vars

\* C13: the property-injection step resolves a symbol through the binding
\* index only if the symbol is an injected property of the class that
\* encloses the cursor.
C13_PropertyStepOnlyForInjectedProperty ==
  (request.entry = "goToImplementation" /\ request.step \in {"property", "document"})
    => isInjectedProperty(files[request.doc], request.cls, request.symbol)

\* C15: when goToImplementation or goToImplementationForToken finds nothing,
\* the message names the attempted symbol, no file has been opened, no cursor
\* moved, and the indices are unchanged.
C15_NothingFoundNamesSymbolOpensNothing ==
  [][(/\ RequestMade
      /\ request'.entry \in {"goToImplementation", "goToImplementationForToken"}
      /\ request'.message /\ request'.found = <<>>)
       => /\ request'.named = request'.symbol
          /\ request'.opened = 0 /\ request'.file = 0
          /\ UNCHANGED <<heap, services, injections>>]_vars

\* C19: a hover over "this.x" where x is not an injected property of the
\* enclosing class triggers no lookup and returns no hover.
C19_NoHoverLookupForUninjectedProperty ==
  (/\ request.entry = "provideHover" /\ request.pattern = "this"
   /\ ~ isInjectedProperty(files[request.doc], request.cls, request.symbol))
    => request.lookup = <<>> /\ request.file = 0

(***************************************************************************)
(* SpecStore: the binding index as parseBindings builds it. One scan       *)
(* clears the map and then parses each visited file once                   *)
(* (scanContainerFile adds the path to processedFiles before it parses).   *)
(***************************************************************************)

NStoreFiles == 2

StoreFiles == 1..NStoreFiles

StoreContents ==
  { Content(<<>>, <<BindTo(tTypesL, iA)>>),
    Content(<<>>, <<BindTo(tTypesL, iB)>>),
    Content(<<>>, <<BindGenericTo(tTypesL, iA), RebindTo(tTypesL, iB)>>),
    Content(<<>>, <<BindTo(tTypesL, iA), BindTo(tTypesC, iA)>>),
    Content(<<>>, <<BindTo(tOtherL, iA), BindTo(tTypesL, iA)>>),
    Content(<<>>, <<BindTo(tQuotedL, iA), BindTo(tSymbolL, iB)>>),
    Content(<<>>, <<BindToSelf(tTypesC), BindTo(tTypesL, iA)>>),
    Content(<<>>, <<BindToSelf(tTypesC)>>),
    Content(<<>>, <<BindToService(tTypesL, iA)>>),
    Content(<< <<"L">> >>, <<BindToScoped(tTypesL, iA)>>),
    Content(<<>>, <<BindTo(iA, iA), BindTo(sTYPES \o <<".">> \o iA, iB)>>) }

StoreInit ==
  /\ index = EmptyMap
  /\ parsed = {}
  /\ node = NoNode
  /\ InitApp(FlatWorkspace, NoCache)

\* scan(): this.bindingsMap.clear(); this.processedFiles.clear()
StoreClear ==
  /\ parsed # {}
  /\ index' = EmptyMap
  /\ parsed' = {}
  /\ UNCHANGED <<scanVars, appVars, request, node, hostVars>>

\* scanContainerFile on a file not yet in processedFiles, whose text is c
StoreParseFile(f, c) ==
  /\ f \notin parsed
  /\ parsed' = parsed \cup {f}
  /\ index' = parseBindings(index, c, f)
  /\ UNCHANGED <<scanVars, appVars, request, node, hostVars>>

StoreNext ==
  \/ StoreClear
  \/ \E f \in StoreFiles, c \in StoreContents : StoreParseFile(f, c)

SpecStore == StoreInit /\ [][StoreNext]_vars

(***************************************************************************)
(* Claims about the binding index (checked under SpecStore)                *)
(***************************************************************************)

\* pairs of distinct positions of the sequence stored under an entry
EntryPairs(e) == {p \in (1..Len(e.val)) \X (1..Len(e.val)) : p[1] < p[2]}

\* C3 as stated: under every key, no two entries have the same
\* (implementation, sourceFile) pair.
C3_NoTwoSameImplFile ==
  \A n \in 1..Len(index) : \A p \in EntryPairs(index[n]) :
    ~ ( /\ index[n].val[p[1]].implementation = index[n].val[p[2]].implementation
        /\ index[n].val[p[1]].file = index[n].val[p[2]].file )

\* C3 as amended: under every key, no two entries have the same
\* (token, implementation, sourceFile) triple; two tokens bound to one
\* implementation in one file are both listed under the implementation key.
C3_NoTwoSameTokenImplFile ==
  \A n \in 1..Len(index) : \A p \in EntryPairs(index[n]) :
    ~ ( /\ index[n].val[p[1]].token = index[n].val[p[2]].token
        /\ index[n].val[p[1]].implementation = index[n].val[p[2]].implementation
        /\ index[n].val[p[1]].file = index[n].val[p[2]].file )

\* C3 witness: a key whose sequence holds two bindings of one file to one
\* implementation (under different tokens), after files were parsed into it
C3_Witness ==
  /\ parsed # {}
  /\ \E n \in 1..Len(index) : \E p \in EntryPairs(index[n]) :
       /\ index[n].val[p[1]].implementation = index[n].val[p[2]].implementation
       /\ index[n].val[p[1]].file = index[n].val[p[2]].file
       /\ index[n].val[p[1]].token # index[n].val[p[2]].token

\* C4 as stated: every binding stored anywhere in the index is an element of
\* the sequence stored under its implementation name.
C4_ImplementationKeyHoldsBinding ==
  \A n \in 1..Len(index) : \A b \in SeqToSet(index[n].val) :
    b \in SeqToSet(MapGet(index, b.implementation))

\* C5 as stated: under the key of a dotted token T = N.X there is one binding
\* of T per (implementation, file), and every binding of T stored under T is
\* also stored under the namespace-stripped key X and under its implementation.
C5_DottedTokenExposedUnderShortAndImpl ==
  \A n \in 1..Len(index) :
    LET T == index[n].key
        ofT == {i \in 1..Len(index[n].val) : index[n].val[i].token = T}
    IN Includes(T, <<".">>) =>
         /\ \A i, j \in ofT :
              ( /\ index[n].val[i].implementation = index[n].val[j].implementation
                /\ index[n].val[i].file = index[n].val[j].file ) => i = j
         /\ \A i \in ofT :
              /\ index[n].val[i] \in SeqToSet(MapGet(index, LastDotPart(T)))
              /\ index[n].val[i] \in
                   SeqToSet(MapGet(index, index[n].val[i].implementation))

\* the tokens of the statements container.bind(T).toSelf() of a file
SelfBoundTokens(c) ==
  {c.stmts[i].calls[1].args[1] :
     i \in {j \in 1..Len(c.stmts) :
              /\ Len(c.stmts[j].calls) = 2
              /\ c.stmts[j].calls[1].name = nBind /\ Len(c.stmts[j].calls[1].args) = 1
              /\ c.stmts[j].calls[2].name = nToSelf}}

\* C14: parsing a file that holds container.bind(T).toSelf() leaves in the
\* index, under the normalized token, a binding of that file whose token and
\* implementation both equal the normalized token.
C14_ToSelfBindsTokenToItself ==
  [][\A f \in StoreFiles, c \in StoreContents :
       StoreParseFile(f, c) =>
         \A t \in SelfBoundTokens(c) :
           \E b \in SeqToSet(MapGet(index', extractIdentifier(t))) :
             /\ b.token = extractIdentifier(t)
             /\ b.implementation = extractIdentifier(t)
             /\ b.file = f]_vars

\* the bindings stored under any key of the map
StoredBindings(m) == UNION {SeqToSet(m[i].val) : i \in 1..Len(m)}

\* the (token, argument) pairs of the chains of a file: a bind or rebind
\* call and a completion call with an argument later in the same statement
ChainPairs(c) ==
  UNION {{<<c.stmts[i].calls[p[1]].args[1], c.stmts[i].calls[p[2]].args[1]>> :
            p \in {q \in (1..Len(c.stmts[i].calls)) \X (1..Len(c.stmts[i].calls)) :
                     /\ q[1] < q[2]
                     /\ c.stmts[i].calls[q[1]].name \in {nBind, nRebind}
                     /\ Len(c.stmts[i].calls[q[1]].args) = 1
                     /\ c.stmts[i].calls[q[2]].name \in {nTo \o sfx : sfx \in ToSuffixes}
                     /\ Len(c.stmts[i].calls[q[2]].args) = 1}} :
         i \in 1..Len(c.stmts)}

\* the bindings the text patterns and the token table produce for a file
TextBindings(c, f) ==
  StoredBindings(parseBindingsTextBased(EmptyMap, c, f))
    \cup StoredBindings(findTokenDefinitions(EmptyMap, c, f))

\* C29 as stated: every binding the text-pattern and the token-table
\* strategies produce for a parsed file pairs the token of a bind or rebind
\* call with the argument of a completion call of the same chain; the token
\* of bind(T1).toSelf() is never paired with the .to(Y) of a later statement.
C29_TextBindingPairsOneChain ==
  [][\A f \in StoreFiles, c \in StoreContents :
       StoreParseFile(f, c) =>
         \A b \in TextBindings(c, f) :
           <<b.token, b.implementation>> \in ChainPairs(c)]_vars

(***************************************************************************)
(* Claims about the scan (checked under SpecScan and SpecScanFair)         *)
(***************************************************************************)

\* every await of scan and scanAll resolves: a scanAll that has started keeps
\* taking its steps. This is weak fairness of ScanStep, written with what
\* ScanStep amounts to: it is possible exactly while scanAll runs, and each of
\* its steps changes scan.
SpecScanFair ==
  SpecScan /\ ([]<>(app.pc = "idle") \/ []<><<app.pc # "idle" /\ scan' # scan>>_vars)

ScanRunning == scan.pc \notin {"idle", "done"}

FullScanRunning == scan.pc \in {"findFiles", "classify", "content", "patterns"}

FullScanDone == scan.pc = "done" /\ scan.result = "full"

CachedScanDone == scan.pc = "done" /\ scan.result = "cached"

\* C6: within one scan no file is parsed more than once, and every scan that
\* has started comes to its end, whatever the imports, re-exports and
\* registry siblings of the files are (the workspaces hold the cycle
\* container.ts -> m.ts -> container.ts, and container.ts is its own
\* registry sibling).
C6_ParsedOnceAndTerminates ==
  /\ [](\A f \in DOMAIN parses : parses[f] <= 1)
  /\ (ScanRunning ~> scan.pc = "done")

\* C6 witness: the next call of scanContainerFile is for a file the scan has
\* parsed, within the depth and the limits: only processedFiles stops it
C6_Witness ==
  /\ scan.pc \in {"content", "patterns"}
  /\ scan.stack # <<>>
  /\ parses[Head(scan.stack).file] = 1
  /\ SkipsFile(ScannerCore(heap, scanner, scan.stack), files, Head(scan.stack),
               now - scanner.scanStartTime)
  /\ ~ SkipsFileNoVisitedCheck(ScannerCore(heap, scanner, scan.stack), files,
                               Head(scan.stack), now - scanner.scanStartTime)

\* the same keys and, under every key, the same set of bindings
SameIndex(m1, m2) ==
  /\ MapKeys(m1) = MapKeys(m2)
  /\ \A k \in MapKeys(m1) : SeqToSet(MapGet(m1, k)) = SeqToSet(MapGet(m2, k))

\* C7 as stated: every full scan without limits ends with the same keys and
\* the same bindings per key as the full scan of the same files and settings
\* whose classification completes in the order of the file list.
C7_FullScanIndependentOfOrder ==
  ( /\ FullScanDone
    /\ scanner.maxFilesToScan = MAX_SAFE_INTEGER
    /\ scanner.scanTimeout = MAX_SAFE_INTEGER )
  => SameIndex(heap[scanner.bindingsMap],
               fullScan(files, scan.patterns, scan.maxDepth, config.maxContainerFilesToScan))

\* C8: a scan never returns the cached index when the hash stored with the
\* cache differs from the hash of the current containerPaths and maxScanDepth;
\* the step scan takes from the cache with such a hash leads to the full scan.
C8_ChangedConfigurationForcesFullScan ==
  [][ /\ (scan.pc = "validate" /\ scan'.pc = "done")
        => cache.configHash = getConfigHash(config)
      /\ ( /\ scan.pc \in {"loadCache", "validate"}
           /\ scan' # scan
           /\ cache.configHash # getConfigHash(config) )
        => scan'.pc = "findFiles" ]_vars

\* C8 witness: a cache of the current version saved under another hash is on
\* disk, and the scan that was free to use the cache is listing the files
C8_Witness ==
  /\ scan.pc = "findFiles"
  /\ scanner.useCache /\ ~ scan.forceFullScan
  /\ cache.exists /\ cache.version = CACHE_VERSION
  /\ cache.configHash # getConfigHash(config)

\* C9 as stated: the cached index a scan returns has the current version tag
\* and an age (now minus its timestamp) of at most cacheMaxAge, whatever the
\* value of cacheMaxAge, 0 included.
C9_ReturnedCacheIsCurrentAndFresh ==
  [][ (scan.pc = "validate" /\ scan'.pc = "done")
        => /\ scan.cacheData.version = CACHE_VERSION
           /\ now - scan.cacheData.timestamp <= config.cacheMaxAge ]_vars

\* the files with bindings the full scan has not visited
FilesRemaining ==
  {f \in SeqToSet(candidateFiles(files)) \ scanner.processedFiles :
     files[f].readable /\ parseBindings(EmptyMap, files[f], f) # EmptyMap}

\* C10: in a full scan processedFiles never grows beyond maxFilesToScan; once
\* the limit is reached no call of scanContainerFile adds a file or changes
\* the index; and the scan ends with the bindings of the files it visited
\* (a non-empty index if any visited file holds a binding).
C10_FileLimitKeepsPartialIndex ==
  /\ []( (FullScanRunning \/ FullScanDone)
           => Cardinality(scanner.processedFiles) <= scanner.maxFilesToScan )
  /\ [][ ( /\ FullScanRunning
           /\ Cardinality(scanner.processedFiles) >= scanner.maxFilesToScan )
         => /\ scanner'.processedFiles = scanner.processedFiles
            /\ heap'[scanner.bindingsMap] = heap[scanner.bindingsMap] ]_vars
  /\ []( ( /\ FullScanDone
           /\ \E f \in scanner.processedFiles :
                files[f].readable /\ parseBindings(EmptyMap, files[f], f) # EmptyMap )
         => heap[scanner.bindingsMap] # EmptyMap )

\* C10 witness: a full scan has ended at the file limit with files that hold
\* bindings left unvisited and a non-empty index
C10_Witness ==
  /\ FullScanDone
  /\ Cardinality(scanner.processedFiles) = scanner.maxFilesToScan
  /\ FilesRemaining # {}
  /\ heap[scanner.bindingsMap] # EmptyMap

\* the files scanContainerFile calls itself on after parsing file f, with the
\* imported functions taken from the declarations of f alone
FollowedFrom(fs, f) ==
  SeqToSet(ChildFiles(
    findImportedModules(fs[f].imports, 1, [imports |-> <<>>, functions |-> {}]).imports,
    findConfigurationFunctionCalls(fs[f],
      findImportedModules(fs[f].imports, 1, [imports |-> <<>>, functions |-> {}]).functions),
    findRegistryFiles(fs, fs[f].dir)))

\* can the extraction of file f follow its edges
Scannable(fs, f) == ~ shouldIgnore(fs[f]) /\ fs[f].readable /\ ~ fs[f].throws

\* the files within depth followed edges of the files S
RECURSIVE ReachableWithin(_, _, _)
ReachableWithin(fs, S, depth) ==
  IF depth = 0 THEN S
  ELSE ReachableWithin(fs,
         S \cup UNION {FollowedFrom(fs, f) : f \in {g \in S : Scannable(fs, g)}},
         depth - 1)

\* the roots of a full scan: the content-detected files and the files of the
\* configured patterns
ScanRoots ==
  SeqToSet(scan.bindingFiles)
    \cup SeqToSet(SliceContainerFiles(scan.containerFiles, config.maxContainerFilesToScan))
    \cup SeqToSet(PatternFiles(files, scan.patterns, 1))

\* C18: no file is parsed at a depth beyond maxDepth, and a full scan without
\* limits ends with every non-ignored file in processedFiles that is within
\* maxDepth followed edges of a scan root.
C18_DepthBoundAndReachableScanned ==
  /\ [][(\E f \in DOMAIN parses : parses'[f] > parses[f])
          => Head(scan.stack).depth <= scan.maxDepth]_vars
  /\ []( ( /\ FullScanDone
           /\ scanner.maxFilesToScan = MAX_SAFE_INTEGER
           /\ scanner.scanTimeout = MAX_SAFE_INTEGER )
         => \A f \in ReachableWithin(files, ScanRoots, scan.maxDepth) :
              ~ shouldIgnore(files[f]) => f \in scanner.processedFiles )

\* C25 as stated: the step that ends a full scan with caching enabled leaves
\* on disk a cache holding exactly the index the scan returns (the same keys
\* and the same bindings under every key), the empty index included.
C25_FullScanPersistsReturnedIndex ==
  [][ ( /\ scan.pc = "patterns" /\ scan'.pc = "done"
        /\ scanner.useCache )
      => /\ cache'.exists
         /\ SameIndex(cache'.bindings, heap'[scanner'.bindingsMap]) ]_vars

\* the deadline has passed or processedFiles has reached the file ceiling
LimitReached ==
  \/ now - scanner.scanStartTime > scanner.scanTimeout
  \/ Cardinality(scanner.processedFiles) >= scanner.maxFilesToScan

\* C23 as stated: neither pass of a full scan starts a per-file unit of work
\* once the deadline has passed or the file ceiling is reached: the first
\* pass opens no batch of files then, and the extraction parses no file then.
C23_LimitsCheckedBeforeEachFile ==
  [][ /\ ( /\ scan.pc \in {"findFiles", "classify"}
           /\ scan'.pc = "classify"
           /\ scan.pending = {} /\ scan'.pending # {} )
         => ~ LimitReached
      /\ (\E f \in DOMAIN parses : parses'[f] > parses[f])
         => ~ LimitReached ]_vars

\* C24: a scan that is forced or runs with caching disabled never reads the
\* cache and never returns it; a scan that may read the cache and finds a
\* valid one goes on to return it, and returning it installs exactly the
\* bindings loaded from disk, with no file parsed and the index of the
\* InversifyNavigator untouched by the step.
C24_CacheHitReturnsCacheElseNoCacheRead ==
  /\ []( (scan.pc # "idle" /\ (scan.forceFullScan \/ ~ scanner.useCache))
          => /\ scan.pc \notin {"loadCache", "validate"}
             /\ scan.cacheData = NoCache
             /\ scan.result # "cached" )
  /\ [][ /\ ( /\ scan.pc = "loadCache" /\ scan' # scan
              /\ loadCache(cache, config) )
            => scan'.pc = "validate" /\ scan'.cacheData = cache
         /\ ( /\ scan.pc = "validate" /\ scan' # scan
              /\ isCacheValid(cache, config, now, config.cacheMaxAge) )
            => scan'.pc = "done" /\ scan'.result = "cached"
         /\ (scan.pc = "validate" /\ scan'.pc = "done")
            => /\ heap'[scanner'.bindingsMap] = scan.cacheData.bindings
               /\ scan.cacheData.bindings = cache.bindings
               /\ scanner'.processedFiles = cache.scannedFiles
               /\ \A f \in DOMAIN parses : parses'[f] = 0
               /\ UNCHANGED <<files, cache>> ]_vars

\* C24 witness: a scan has returned a non-empty cached index, no file parsed,
\* and the cache on disk was written by a full scan of this session
C24_Witness ==
  /\ CachedScanDone
  /\ heap[scanner.bindingsMap] # EmptyMap
  /\ heap[scanner.bindingsMap] = cache.bindings
  /\ cache.version = CACHE_VERSION
  /\ \A f \in DOMAIN parses : parses[f] = 0

\* the positions of the pending root calls of contentBasedScan for the files
\* of a class
RootCalls(stack, classFiles) ==
  {i \in 1..Len(stack) : stack[i].depth = 0 /\ stack[i].file \in SeqToSet(classFiles)}

\* C27: the first pass puts every file in at most one class, at most once;
\* the root calls lined up at its end are those of all files with bindings
\* and of at most maxContainerFilesToScan files with container references
\* (-1: all of them); and no root call of a container file starts while a
\* root call of a file with bindings is still to come.
C27_BindingRootsFirstThenCappedContainerRoots ==
  /\ []( /\ SeqToSet(scan.bindingFiles) \cap SeqToSet(scan.containerFiles) = {}
         /\ Cardinality(SeqToSet(scan.bindingFiles)) = Len(scan.bindingFiles)
         /\ Cardinality(SeqToSet(scan.containerFiles)) = Len(scan.containerFiles) )
  /\ [][ /\ (scan.pc = "classify" /\ scan'.pc = "content")
            => /\ Cardinality(RootCalls(scan'.stack, scan.bindingFiles))
                    = Len(scan.bindingFiles)
               /\ config.maxContainerFilesToScan # -1
                    => Cardinality(RootCalls(scan'.stack, scan.containerFiles))
                         <= config.maxContainerFilesToScan
               /\ Len(scan'.stack)
                    = Cardinality(RootCalls(scan'.stack, scan.bindingFiles))
                        + Cardinality(RootCalls(scan'.stack, scan.containerFiles))
         /\ ( /\ scan.pc = "content" /\ scan'.pc = "content"
              /\ scan'.stack # scan.stack
              /\ 1 \in RootCalls(scan.stack, scan.containerFiles) )
            => RootCalls(scan.stack, scan.bindingFiles) = {} ]_vars

\* C27 witness: with a cap of 1 and two files with container references, the
\* files with bindings have been parsed and the one root call of a container
\* file is the next call
C27_Witness ==
  /\ scan.pc = "content"
  /\ config.maxContainerFilesToScan = 1
  /\ Len(scan.containerFiles) = 2
  /\ Len(scan.bindingFiles) = 2
  /\ \A i \in 1..Len(scan.bindingFiles) : parses[scan.bindingFiles[i]] = 1
  /\ Len(scan.stack) = 1
  /\ RootCalls(scan.stack, scan.containerFiles) = {1}

\* C21 as stated: the scan a change event started never returns the cached
\* index: the removal of the cache has taken effect before the scan looks at
\* the cache, so the scan is a full one over the current files.
C21_ChangeEventRescanIgnoresOldCache ==
  (watcher.rescan = app.scans /\ scan.pc = "done") => scan.result = "full"

\* C30 as stated: the handling of a change event for a path without any of
\* the keywords, and of any change event raised and handled while
\* autoScanOnSave is off, starts no scan and leaves the indexes and the cache
\* on disk as they are.
C30_OtherChangeEventsStartNothing ==
  [][\A f \in 1..Len(files) :
       ( /\ FileChanged(f)
         /\ \/ ~ config.autoScanOnSave /\ f \in watcher.raisedOff
            \/ ~ shouldRescan(files[f]) )
         => /\ UNCHANGED <<app, scan, scanner, heap, cache, services, injections, completed>>
            /\ watcher'.clearing = watcher.clearing]_vars

\* C28: a full scan ends with an index that holds only bindings the current
\* text of their source file yields, so a binding whose bind call was removed
\* is gone after a full rescan; a scan that returns the cache ends with
\* exactly the bindings of the cache it loaded.
C28_IndexHoldsOnlyBindingsOfThisScan ==
  [][ /\ (scan.pc = "patterns" /\ scan'.pc = "done")
        => \A b \in StoredBindings(heap'[scanner'.bindingsMap]) :
             b \in StoredBindings(parseBindings(EmptyMap, files[b.file], b.file))
      /\ (scan.pc = "validate" /\ scan'.pc = "done")
        => heap'[scanner'.bindingsMap] = scan.cacheData.bindings ]_vars

\* C28 witness: a full rescan has ended with a non-empty index; the index of
\* the scan before it holds a binding of a file whose bind calls were removed
\* since, and the new index does not hold it
C28_Witness ==
  /\ FullScanDone
  /\ app.scans > 1
  /\ heap[scanner.bindingsMap] # EmptyMap
  /\ \E b \in StoredBindings(completed.bindings) :
       /\ files[b.file].stmts = <<>>
       /\ b \notin StoredBindings(heap[scanner.bindingsMap])

\* C22 as stated: whatever other scan was started while it was suspended, a
\* full scan returns the index it returns when run alone on the same files
\* and settings, and a scan answered from the cache returns the cache it
\* loaded; scanAll receives that index.
C22_OverlappingScansReturnAsAlone ==
  [][ /\ (scan.pc = "patterns" /\ scan'.pc = "done")
        => SameIndex(heap'[scanner'.bindingsMap],
                     fullScan(files, scan.patterns, scan.maxDepth,
                              config.maxContainerFilesToScan))
      /\ (scan.pc = "validate" /\ scan'.pc = "done")
        => heap'[scanner'.bindingsMap] = scan.cacheData.bindings
      /\ (app.pc = "scan" /\ app'.pc = "services" /\ scan.result = "full")
        => SameIndex(heap'[app'.bindingsMap],
                     fullScan(files, scan.patterns, scan.maxDepth,
                              config.maxContainerFilesToScan)) ]_vars

\* the files the ignore patterns match
IgnoredFiles == {f \in 1..Len(files) : shouldIgnore(files[f])}

\* the files whose text the first pass of contentBasedScan opens
FirstPassFiles ==
  SeqToSet(scan.candidates) \cup SeqToSet(scan.bindingFiles) \cup SeqToSet(scan.containerFiles)

C16_FailuresDiagnosedScanGoesOn ==
  FullScanDone =>
    \A f \in scanner.processedFiles :
      IF ~ files[f].readable \/ files[f].throws
      THEN f \in scanner.diagnostics
      ELSE StoredBindings(parseBindings(EmptyMap, files[f], f))
             \subseteq StoredBindings(heap[scanner.bindingsMap])

(***************************************************************************)
(* SpecNormalize: extractIdentifier applied to the text of an expression   *)
(* node. The nodes are string literals in the three quote styles,          *)
(* identifiers, dotted paths, sums of two of these, and Symbol( ) and      *)
(* Symbol.for( ) calls on any of them.                                     *)
(***************************************************************************)

Interiors == {<<>>, <<"F">>, <<"F", "o", "o">>, <<"a", ".", "b">>}

\* a string literal: its text is the interior between two quote characters
Literal(q, s) ==
  [kind |-> "literal", interior |-> s, text |-> <<q>> \o s \o <<q>>]

\* an expression that is neither a literal nor a Symbol call on a literal
Other(t) == [kind |-> "other", interior |-> <<>>, text |-> t]

Operands ==
  {Literal(q, s) : q \in QuoteChars, s \in Interiors}
    \cup {Other(<<"F">>), Other(sTYPES \o <<".", "F">>)}

\* a + b
Sum(a, b) == Other(a.text \o <<" ", "+", " ">> \o b.text)

Arguments == Operands \cup {Sum(a, b) : a \in Operands, b \in Operands}

\* Symbol(arg) and Symbol.for(arg): of kind "symbol" when arg is a literal
SymbolCall(open, arg) ==
  [kind |-> IF arg.kind = "literal" THEN "symbol" ELSE "other",
   interior |-> arg.interior,
   text |-> open \o arg.text \o <<")">>]

Nodes ==
  Arguments \cup {SymbolCall(open, arg) : open \in {sSymbolOpen, sSymbolForOpen},
                                          arg \in Arguments}

NormalizeInit ==
  /\ index = EmptyMap
  /\ parsed = {}
  /\ InitApp(FlatWorkspace, NoCache)
  /\ \E n \in Nodes :
       node = [kind |-> n.kind, interior |-> n.interior, text |-> n.text,
               identifier |-> <<>>, applied |-> FALSE]

\* extractIdentifier(node, sourceFile) on the node drawn
ExtractIdentifier ==
  /\ ~ node.applied
  /\ node' = [node EXCEPT !.identifier = extractIdentifier(node.text), !.applied = TRUE]
  /\ UNCHANGED <<storeVars, scanVars, appVars, request, hostVars>>

SpecNormalize == NormalizeInit /\ [][ExtractIdentifier]_vars

\* C20: extractIdentifier maps a quoted literal s, Symbol(<quoted s>) and
\* Symbol.for(<quoted s>) to the interior s and returns every other text
\* unchanged.
C20_NormalizeStripsLiteralsOnly ==
  node.applied =>
    node.identifier =
      (IF node.kind \in {"literal", "symbol"} THEN node.interior ELSE node.text)

====
